---- MODULE Spec2Model ----
(***************************************************************************)
(* Model of the runtime orchestration core of smiw-calendar:               *)
(*   - ScreenManager  (src/app/screens/screen_manager.py)                  *)
(*   - EventNotifier  (src/app/event_notifier.py)                          *)
(*   - AppController  (src/app/controller.py)                              *)
(* Three specifications share the variables:                               *)
(*   SpecRotator  - the ScreenManager driven by arbitrary call sequences   *)
(*   SpecNotifier - the EventNotifier driven by arbitrary call sequences   *)
(*   Spec         - the AppController with its threads                     *)
(***************************************************************************)
EXTENDS Integers, Sequences, FiniteSets, TLC

(***************************************************************************)
(* Bounds                                                                  *)
(***************************************************************************)
MaxScreens == 4

(***************************************************************************)
(* ScreenManager state.  Screens are identified by positive integers;      *)
(* Python's None is NoScreen.  Python lists are 0-based, TLA+ sequences    *)
(* 1-based: _screens[i] is screens[i + 1].                                 *)
(***************************************************************************)
NoScreen == 0

VARIABLES
    screens,        \* ScreenManager._screens
    current_index,  \* ScreenManager._current_index
    call,           \* record of the most recent ScreenManager call
    prev,           \* record of the call before it
    runStart,       \* index at which the present run of next_screen calls began
    runVisited,     \* screens returned by the present run of next_screen calls
    balance,        \* per screen: on_enter calls received minus on_exit calls
    last_entered,   \* the screen whose on_enter was called most recently
    phase,          \* history of the manager's calls: "fresh" (registrations
                    \* only), "navigating" (then initialize(), then
                    \* next/previous/go_to calls only) or "other"
    events,         \* EventNotifier._events (the working set)
    notified_keys,  \* EventNotifier._notified_keys
    led_on,         \* EventNotifier._led_on
    led,            \* state of the physical LED (led_driver)
    now,            \* wall clock in the configured timezone
    ncall,          \* record of the most recent EventNotifier call
    pc,             \* where each thread of the controller is
    ud,             \* per thread: its _update_display call in progress
    display_lock,   \* AppController._display_lock: "free" or its holder
    panel,          \* what the e-ink panel shows
    epd,            \* AppController._epd: "none" or the driver in use
    driver,         \* config.EPD_DRIVER
    stop_event,     \* AppController._stop_event
    running,        \* AppController._running
    pressed,        \* button_driver._pressed_flag
    today_events,   \* EventsTodayScreen._events
    notifier_running, \* EventNotifier._running
    callbacks,      \* EventNotifier._on_notification_callbacks
    nlog,           \* LED commands sent and callbacks invoked by the most
                    \* recent EventNotifier call
    nprev,          \* summary of the EventNotifier call before it
    wd_stop,        \* EventNotifier._stop_event
    wd_thread,      \* EventNotifier._thread: 0 (None) or a monitor thread
    mpc,            \* where each monitor thread is
    cpc,            \* where the thread calling start()/stop() is
    scan,           \* per monitor thread: record of its scan in progress
    wop,            \* record of the most recent start()/stop()/is_running()
    trace,          \* the steps run() and shutdown() have performed so far
    fault,          \* the startup steps of run() that have failed
    wthread,        \* per worker: self._<t>_thread is None ("none"), a
                    \* Thread never started ("created") or a started one
    run_result,     \* how run() ended: "none", "returned" or "raised"
    snap,           \* per thread that calls _sync_notifier: its local `events`
    ext,            \* a shutdown() call made by another thread: "none" (not
                    \* made), "returned" or "raised"
    reading,        \* DHT11Screen._reading: "none" (None) or "value"
    recorded        \* the presses recorded (calls of _on_pressed) since the
                    \* last call of button_was_pressed

rotVars == <<screens, current_index, call, prev, runStart, runVisited,
             balance, last_entered, phase>>

notVars == <<events, notified_keys, led_on, led, now, ncall>>

ctlVars == <<pc, ud, display_lock, panel, epd, driver, stop_event, running,
             pressed, today_events, notifier_running>>

logVars == <<callbacks, nlog, nprev>>

monVars == <<wd_stop, wd_thread, mpc, cpc, scan, wop>>

runVars == <<trace, fault, wthread, run_result, snap, ext, reading, recorded>>

vars == <<screens, current_index, call, prev, runStart, runVisited,
          balance, last_entered, phase,
          events, notified_keys, led_on, led, now, ncall,
          pc, ud, display_lock, panel, epd, driver, stop_event, running,
          pressed, today_events, notifier_running,
          callbacks, nlog, nprev, wd_stop, wd_thread, mpc, cpc, scan, wop,
          trace, fault, wthread, run_result, snap, ext, reading, recorded>>

ScreenPool == 1..MaxScreens

\* len(self._screens)
screen_count == Len(screens)

\* ScreenManager.current_screen, evaluated for a list scr and an index idx
\* (a negative Python index counts from the end of the list)
ScreenAt(scr, idx) ==
    IF Len(scr) = 0 THEN NoScreen
    ELSE IF idx < 0 THEN scr[Len(scr) + idx + 1] ELSE scr[idx + 1]

current_screen == ScreenAt(screens, current_index)

\* ScreenManager.render_current: the image of a screen is identified by the
\* screen; a render that raises is caught and yields None (NoScreen).
render_current(renderOk) ==
    IF current_screen = NoScreen THEN NoScreen
    ELSE IF renderOk THEN current_screen ELSE NoScreen

\* index arithmetic of next_screen / previous_screen (Python % is floored;
\* so is TLA+'s for a positive modulus)
NextIndexNoWrap(idx, n) == IF idx + 1 >= n THEN idx ELSE idx + 1

NextIndex(idx, n) == (idx + 1) % n

PrevIndexClamp(idx, n) == IF idx = 0 THEN 0 ELSE idx - 1

PrevIndexNoMod(idx, n) == idx - 1

PrevIndex(idx, n) == (idx - 1) % n

\* go_to_screen's guard
ValidIndexNoNeg(i, n) == ~(n = 0 \/ i >= n)

ValidIndex(i, n) == ~(n = 0 \/ i < 0 \/ i >= n)

\* The hook/assignment sequence of one transition to index target:
\* on_exit of the outgoing screen, the index assignment, on_enter of the
\* incoming screen.
TransitionHooksEnterFirst(scr, from, target) ==
    <<  <<"on_enter", ScreenAt(scr, target)>>,
        <<"set_index", target>>,
        <<"on_exit", ScreenAt(scr, from)>>  >>

TransitionHooksNoExit(scr, from, target) ==
    <<  <<"set_index", target>>,
        <<"on_enter", ScreenAt(scr, target)>>  >>

TransitionHooks(scr, from, target) ==
    <<  <<"on_exit", ScreenAt(scr, from)>>,
        <<"set_index", target>>,
        <<"on_enter", ScreenAt(scr, target)>>  >>

\* initialize(): on_enter of the first registered screen, if any
InitializeHooksCurrent(scr) ==
    IF Len(scr) > 0 THEN << <<"on_enter", ScreenAt(scr, current_index)>> >> ELSE <<>>

InitializeHooks(scr) ==
    IF Len(scr) > 0 THEN << <<"on_enter", scr[1]>> >> ELSE <<>>

NoCall == [op |-> "none", arg |-> 0, ret |-> NoScreen, pre |-> 0, n |-> 0,
           hooks |-> <<>>]

Record(op, arg, ret, hooks) ==
    [op |-> op, arg |-> arg, ret |-> ret, pre |-> current_index,
     n |-> screen_count, hooks |-> hooks]

\* no hook has been called
NoHooks == [s \in ScreenPool |-> 0]

RECURSIVE Received(_, _)
\* the balances after the hook calls of sequence hooks, in order
Received(bal, hooks) ==
    IF hooks = <<>> THEN bal
    ELSE LET h == Head(hooks)
             b == IF h[1] = "on_enter" THEN [bal EXCEPT ![h[2]] = @ + 1]
                  ELSE IF h[1] = "on_exit" THEN [bal EXCEPT ![h[2]] = @ - 1]
                  ELSE bal
         IN  Received(b, Tail(hooks))

RECURSIVE LastEntered(_, _)
\* the screen of the last on_enter call of sequence hooks, last when none
LastEntered(last, hooks) ==
    IF hooks = <<>> THEN last
    ELSE LastEntered(IF Head(hooks)[1] = "on_enter" THEN Head(hooks)[2] ELSE last,
                     Tail(hooks))

\* the history after a call of operation op
PhaseAfter(op) ==
    IF op = "register_screen" THEN (IF phase = "fresh" THEN "fresh" ELSE "other")
    ELSE IF op = "initialize" THEN (IF phase = "fresh" THEN "navigating" ELSE "other")
    ELSE IF phase = "navigating" THEN "navigating" ELSE "other"

\* the hook calls of the present call are counted; the count is kept for
\* histories of the form registrations, initialize(), navigation calls
Accounted ==
    /\ phase' = PhaseAfter(call'.op)
    /\ balance' = IF phase' = "other" THEN NoHooks
                  ELSE Received(balance, call'.hooks)
    /\ last_entered' = IF phase' = "other" THEN NoScreen
                       ELSE LastEntered(last_entered, call'.hooks)

\* register_screen(screen)
RegisterScreen(s) ==
    /\ s \notin {screens[i] : i \in 1..Len(screens)}
    /\ screens' = Append(screens, s)
    /\ call' = Record("register_screen", s, NoScreen, <<>>)
    /\ prev' = call
    /\ runStart' = current_index
    /\ runVisited' = <<>>
    /\ UNCHANGED current_index
    /\ Accounted

\* initialize()
Initialize ==
    /\ call' = Record("initialize", 0, NoScreen, InitializeHooks(screens))
    /\ prev' = call
    /\ runStart' = current_index
    /\ runVisited' = <<>>
    /\ UNCHANGED <<screens, current_index>>
    /\ Accounted

\* next_screen()
NextScreen ==
    /\ IF Len(screens) = 0
       THEN /\ call' = Record("next_screen", 0, NoScreen, <<>>)
            /\ UNCHANGED <<current_index, runStart, runVisited>>
       ELSE LET target == NextIndex(current_index, Len(screens))
                fresh  == Len(runVisited) >= Len(screens)
            IN  /\ current_index' = target
                /\ call' = Record("next_screen", 0, ScreenAt(screens, target),
                                  TransitionHooks(screens, current_index, target))
                /\ runStart' = IF fresh THEN current_index ELSE runStart
                /\ runVisited' = IF fresh THEN <<ScreenAt(screens, target)>>
                                 ELSE Append(runVisited, ScreenAt(screens, target))
    /\ prev' = call
    /\ UNCHANGED screens
    /\ Accounted

\* previous_screen()
PreviousScreen ==
    /\ IF Len(screens) = 0
       THEN /\ call' = Record("previous_screen", 0, NoScreen, <<>>)
            /\ UNCHANGED current_index
       ELSE LET target == PrevIndex(current_index, Len(screens))
            IN  /\ current_index' = target
                /\ call' = Record("previous_screen", 0, ScreenAt(screens, target),
                                  TransitionHooks(screens, current_index, target))
    /\ prev' = call
    /\ runStart' = IF Len(screens) = 0 THEN current_index ELSE current_index'
    /\ runVisited' = <<>>
    /\ UNCHANGED screens
    /\ Accounted

\* go_to_screen(index)
GoToScreen(i) ==
    /\ IF ~ValidIndex(i, Len(screens))
       THEN /\ call' = Record("go_to_screen", i, NoScreen, <<>>)
            /\ UNCHANGED current_index
       ELSE /\ current_index' = i
            /\ call' = Record("go_to_screen", i, ScreenAt(screens, i),
                              TransitionHooks(screens, current_index, i))
    /\ prev' = call
    /\ runStart' = current_index'
    /\ runVisited' = <<>>
    /\ UNCHANGED screens
    /\ Accounted

InitManager ==
    /\ screens = <<>>
    /\ current_index = 0
    /\ call = NoCall
    /\ prev = NoCall
    /\ runStart = 0
    /\ runVisited = <<>>
    /\ balance = NoHooks
    /\ last_entered = NoScreen
    /\ phase = "fresh"

(***************************************************************************)
(* EventNotifier.  Strings are sequences of one-character strings, so that *)
(* the start strings are parsed as _parse_event_time parses them.  A dict  *)
(* is a function whose domain holds the keys that are present.             *)
(***************************************************************************)
MaxEvents == 2

NOTIFICATION_MINUTES_BEFORE == 10

\* EventNotifier._minutes_before (get_notifier() and the tests use the default)
minutes_before == NOTIFICATION_MINUTES_BEFORE

\* Python's None as the value of a dict entry
None == <<"None">>

Digits == {"0", "1", "2", "3", "4", "5", "6", "7", "8", "9"}

DigitVal(c) ==
    CASE c = "0" -> 0 [] c = "1" -> 1 [] c = "2" -> 2 [] c = "3" -> 3
      [] c = "4" -> 4 [] c = "5" -> 5 [] c = "6" -> 6 [] c = "7" -> 7
      [] c = "8" -> 8 [] c = "9" -> 9

Whitespace == {" ", "\t", "\n"}

AllDigits(str) == \A i \in 1..Len(str) : str[i] \in Digits

RECURSIVE ToInt(_)
\* int(group)
ToInt(str) ==
    IF str = <<>> THEN 0
    ELSE 10 * ToInt(SubSeq(str, 1, Len(str) - 1)) + DigitVal(str[Len(str)])

RECURSIVE LStrip(_)
LStrip(str) ==
    IF str # <<>> /\ Head(str) \in Whitespace THEN LStrip(Tail(str)) ELSE str

RECURSIVE RStrip(_)
RStrip(str) ==
    IF str # <<>> /\ str[Len(str)] \in Whitespace
    THEN RStrip(SubSeq(str, 1, Len(str) - 1)) ELSE str

\* str.strip()
Strip(str) == RStrip(LStrip(str))

\* datetime: [day |-> proleptic Gregorian ordinal, sec |-> second of the day];
\* all datetimes of the notifier carry the same tzinfo, so arithmetic on them
\* is wall-clock arithmetic.  NoTime is a failed parse (None).
NoTime == [day |-> 0, sec |-> 0]

SecondsPerDay == 86400

IsLeap(y) == (y % 4 = 0) /\ ((y % 100 # 0) \/ (y % 400 = 0))

DaysInMonth(y, m) ==
    IF m = 2 THEN (IF IsLeap(y) THEN 29 ELSE 28)
    ELSE IF m \in {4, 6, 9, 11} THEN 30 ELSE 31

RECURSIVE DaysBeforeMonth(_, _)
DaysBeforeMonth(y, m) ==
    IF m <= 1 THEN 0 ELSE DaysBeforeMonth(y, m - 1) + DaysInMonth(y, m - 1)

DaysBeforeYear(y) ==
    (y - 1) * 365 + ((y - 1) \div 4) - ((y - 1) \div 100) + ((y - 1) \div 400)

\* date(y, m, d).toordinal()
Ordinal(y, m, d) == DaysBeforeYear(y) + DaysBeforeMonth(y, m) + d

ValidDate(y, m, d) ==
    /\ 1 <= y /\ y <= 9999
    /\ 1 <= m /\ m <= 12
    /\ 1 <= d /\ d <= DaysInMonth(y, m)

ValidTime(h, mi) == 0 <= h /\ h <= 23 /\ 0 <= mi /\ mi <= 59

\* re.match(r'^(\d{1,2}):(\d{2})$', str)
MatchHM(str) ==
    /\ Len(str) \in {4, 5}
    /\ str[Len(str) - 2] = ":"
    /\ AllDigits(SubSeq(str, 1, Len(str) - 3))
    /\ AllDigits(SubSeq(str, Len(str) - 1, Len(str)))

HourOf(str) == ToInt(SubSeq(str, 1, Len(str) - 3))

MinuteOf(str) == ToInt(SubSeq(str, Len(str) - 1, Len(str)))

\* the YYYY-MM-DD prefix of both remaining formats
MatchDate(str) ==
    /\ Len(str) >= 10
    /\ AllDigits(SubSeq(str, 1, 4))
    /\ str[5] = "-"
    /\ AllDigits(SubSeq(str, 6, 7))
    /\ str[8] = "-"
    /\ AllDigits(SubSeq(str, 9, 10))

YearOf(str) == ToInt(SubSeq(str, 1, 4))

MonthOf(str) == ToInt(SubSeq(str, 6, 7))

DayOf(str) == ToInt(SubSeq(str, 9, 10))

\* re.match(r'^(\d{4})-(\d{2})-(\d{2})\s+(\d{1,2}):(\d{2})$', str)
MatchDateHM(str) ==
    /\ MatchDate(str)
    /\ Len(str) >= 11
    /\ str[11] \in Whitespace
    /\ MatchHM(LStrip(SubSeq(str, 11, Len(str))))

\* datetime.fromisoformat(str), for the two shapes the model feeds it:
\* "YYYY-MM-DD" and "YYYY-MM-DD<sep>HH:MM"; anything else raises ValueError.
IsoDateOnly(str) == Len(str) = 10 /\ MatchDate(str)

IsoDateHM(str) ==
    /\ Len(str) = 16
    /\ MatchDate(str)
    /\ AllDigits(SubSeq(str, 12, 13))
    /\ str[14] = ":"
    /\ AllDigits(SubSeq(str, 15, 16))

\* datetime(y, m, d, h, mi), NoTime where the constructor raises ValueError
MakeDateTime(y, m, d, h, mi) ==
    IF ValidDate(y, m, d) /\ ValidTime(h, mi)
    THEN [day |-> Ordinal(y, m, d), sec |-> h * 3600 + mi * 60]
    ELSE NoTime

\* _parse_event_time(time_str) at wall-clock time t
ParseEventTime(time_str, t) ==
    IF time_str = None \/ time_str = <<>> THEN NoTime
    ELSE LET st == Strip(time_str) IN
         IF MatchHM(st)
         THEN IF ValidTime(HourOf(st), MinuteOf(st))
              THEN [day |-> t.day, sec |-> HourOf(st) * 3600 + MinuteOf(st) * 60]
              ELSE NoTime
         ELSE IF MatchDateHM(st)
         THEN LET hm == LStrip(SubSeq(st, 11, Len(st)))
              IN  MakeDateTime(YearOf(st), MonthOf(st), DayOf(st),
                               HourOf(hm), MinuteOf(hm))
         ELSE IF IsoDateOnly(time_str)
         THEN MakeDateTime(YearOf(time_str), MonthOf(time_str),
                           DayOf(time_str), 0, 0)
         ELSE IF IsoDateHM(time_str)
         THEN MakeDateTime(YearOf(time_str), MonthOf(time_str), DayOf(time_str),
                           ToInt(SubSeq(time_str, 12, 13)),
                           ToInt(SubSeq(time_str, 15, 16)))
         ELSE NoTime

\* timedelta: [days, seconds] normalised as Python does (0 <= seconds < 86400)
TimeDelta(days, secs) ==
    [days |-> days + (secs \div SecondsPerDay), seconds |-> secs % SecondsPerDay]

\* start_time - now
TimeUntil(start, t) == TimeDelta(start.day - t.day, start.sec - t.sec)

TdLess(a, b) ==
    a.days < b.days \/ (a.days = b.days /\ a.seconds < b.seconds)

TdLeq(a, b) == a = b \/ TdLess(a, b)

\* timedelta(0) < time_until_event <= notification_window
InWindowExclusive(td) ==
    TdLess(TimeDelta(0, 0), td) /\ TdLess(td, TimeDelta(0, minutes_before * 60))

InWindow(td) ==
    TdLess(TimeDelta(0, 0), td) /\ TdLeq(td, TimeDelta(0, minutes_before * 60))

\* dict.get(key, default)
Get(e, k, default) == IF k \in DOMAIN e THEN e[k] ELSE default

\* f"{event.get('title','')}|{start_str}"
KeyOf(e) == Get(e, "title", <<>>) \o <<"|">> \o e.start

\* `not start_str`
Falsy(str) == str = None \/ str = <<>>

RECURSIVE FilterTimedStrict(_)
FilterTimedStrict(L) ==
    IF L = <<>> THEN <<>>
    ELSE IF "is_all_day" \in DOMAIN Head(L) /\ ~Head(L).is_all_day
         THEN <<Head(L)>> \o FilterTimedStrict(Tail(L))
         ELSE FilterTimedStrict(Tail(L))

RECURSIVE FilterTimed(_)
\* [e for e in events if not e.get("is_all_day", False)]
FilterTimed(L) ==
    IF L = <<>> THEN <<>>
    ELSE IF ~Get(Head(L), "is_all_day", FALSE)
         THEN <<Head(L)>> \o FilterTimed(Tail(L))
         ELSE FilterTimed(Tail(L))

RECURSIVE CheckScanAlt(_, _, _, _, _, _, _)
\* variants of the for loop: onBad is what the loop does at an event without
\* a usable start, onSeen what it does at an in-window event that is already
\* notified with the LED on ("continue", "break" or, for onSeen, "return")
CheckScanAlt(evs, i, keys, ledOn, t, onBad, onSeen) ==
    IF i > Len(evs) THEN [ret |-> <<>>, idx |-> 0, keys |-> keys]
    ELSE LET event      == evs[i]
             start_str  == Get(event, "start", None)
             start_time == ParseEventTime(start_str, t)
             stop       == [ret |-> <<>>, idx |-> 0, keys |-> keys]
             go_on      == CheckScanAlt(evs, i + 1, keys, ledOn, t, onBad, onSeen)
         IN  IF Falsy(start_str) \/ start_time = NoTime
             THEN IF onBad = "break" THEN stop ELSE go_on
             ELSE LET time_until_event == TimeUntil(start_time, t)
                      key == Get(event, "title", <<>>) \o <<"|">> \o start_str
                  IN  IF InWindow(time_until_event)
                      THEN IF key \in keys /\ ledOn /\ onSeen # "return"
                           THEN IF onSeen = "break" THEN stop ELSE go_on
                           ELSE [ret |-> <<event>>, idx |-> i,
                                 keys |-> keys \cup {key}]
                      ELSE IF TdLeq(time_until_event, TimeDelta(0, 0))
                              /\ key \in keys
                           THEN CheckScanAlt(evs, i + 1, keys \ {key}, ledOn, t,
                                             onBad, onSeen)
                           ELSE go_on

CheckScanReturnsSeen(evs, i, keys, ledOn, t) ==
    CheckScanAlt(evs, i, keys, ledOn, t, "continue", "return")

CheckScanStopsAtBad(evs, i, keys, ledOn, t) ==
    CheckScanAlt(evs, i, keys, ledOn, t, "break", "continue")

RECURSIVE CheckScan(_, _, _, _, _)
\* the for loop of check_notifications from position i on, with notified
\* keys `keys`: the returned event (<<>> for None), its position, the keys
CheckScan(evs, i, keys, ledOn, t) ==
    IF i > Len(evs) THEN [ret |-> <<>>, idx |-> 0, keys |-> keys]
    ELSE LET event      == evs[i]
             start_str  == Get(event, "start", None)
             start_time == ParseEventTime(start_str, t)
         IN  IF Falsy(start_str) \/ start_time = NoTime
             THEN CheckScan(evs, i + 1, keys, ledOn, t)
             ELSE LET time_until_event == TimeUntil(start_time, t)
                      key == Get(event, "title", <<>>) \o <<"|">> \o start_str
                  IN  IF InWindow(time_until_event)
                      THEN IF key \in keys /\ ledOn
                           THEN CheckScan(evs, i + 1, keys, ledOn, t)
                           ELSE [ret |-> <<event>>, idx |-> i,
                                 keys |-> keys \cup {key}]
                      ELSE IF TdLeq(time_until_event, TimeDelta(0, 0))
                              /\ key \in keys
                           THEN CheckScan(evs, i + 1, keys \ {key}, ledOn, t)
                           ELSE CheckScan(evs, i + 1, keys, ledOn, t)

NoNCall == [op |-> "none", arg |-> <<>>, ret |-> <<>>, idx |-> 0,
            pre_keys |-> {}, pre_led_on |-> FALSE, pre_led |-> FALSE]

NRecord(op, arg, ret, idx) ==
    [op |-> op, arg |-> arg, ret |-> ret, idx |-> idx,
     pre_keys |-> notified_keys, pre_led_on |-> led_on, pre_led |-> led]

MaxCallbacks == 2

NoLog == [cmds |-> <<>>, cbs |-> <<>>]

NoPrev == [op |-> "none", pre_led_on |-> FALSE, cmds |-> <<>>, cbs |-> <<>>]

\* history: the LED commands and callback invocations of the call being
\* recorded; a _notify call recorded just before it becomes nprev
NLog(cmds, cbs) ==
    /\ nlog' = [cmds |-> cmds, cbs |-> cbs]
    /\ nprev' = IF ncall.op = "_notify"
                THEN [op |-> ncall.op, pre_led_on |-> ncall.pre_led_on,
                      cmds |-> nlog.cmds, cbs |-> nlog.cbs]
                ELSE NoPrev

\* led_driver.turn_on() / turn_off(): the physical LED after the commands
\* `cmds`, starting from state l (the commands are idempotent)
LedAfter(cmds, l) ==
    IF cmds = <<>> THEN l ELSE cmds[Len(cmds)] = "on"

\* update_events(L)
UpdateEvents(L) ==
    /\ events' = FilterTimed(L)
    /\ ncall' = NRecord("update_events", L, <<>>, 0)
    /\ NLog(<<>>, <<>>)
    /\ UNCHANGED <<notified_keys, led_on, led, now, callbacks>>

\* check_notifications()
CheckNotifications ==
    LET r == CheckScan(events, 1, notified_keys, led_on, now)
    IN  /\ notified_keys' = r.keys
        /\ ncall' = NRecord("check_notifications", <<>>, r.ret, r.idx)
        /\ NLog(<<>>, <<>>)
        /\ UNCHANGED <<events, led_on, led, now, callbacks>>

\* add_notification_callback(callback): callbacks are numbered in the order
\* of their registration
AddNotificationCallback ==
    /\ Len(callbacks) < MaxCallbacks
    /\ callbacks' = Append(callbacks, Len(callbacks) + 1)
    /\ ncall' = NRecord("add_notification_callback", <<>>, <<>>, 0)
    /\ NLog(<<>>, <<>>)
    /\ UNCHANGED <<events, notified_keys, led_on, led, now>>

NotifyCommandsUnguarded(ledOn) == <<"on">>

NotifyCommandsNone(ledOn) == <<>>

\* _notify: the LED commands it sends when _led_on is ledOn
NotifyCommands(ledOn) == IF ~ledOn THEN <<"on">> ELSE <<>>

\* _notify: the callbacks it invokes, in order, when _led_on is ledOn (an
\* exception raised by a callback is logged and the loop goes on)
NotifyCallbacks(ledOn, cbs) == IF ~ledOn THEN cbs ELSE <<>>

\* _notify(event)
Notify ==
    /\ led' = LedAfter(NotifyCommands(led_on), led)
    /\ led_on' = TRUE
    /\ ncall' = NRecord("_notify", <<>>, <<>>, 0)
    /\ NLog(NotifyCommands(led_on), NotifyCallbacks(led_on, callbacks))
    /\ UNCHANGED <<events, notified_keys, now, callbacks>>

\* _clear_notification: the LED commands it sends when _led_on is ledOn
ClearCommands(ledOn) == IF ledOn THEN <<"off">> ELSE <<>>

\* _clear_notification()
ClearNotification ==
    /\ led' = LedAfter(ClearCommands(led_on), led)
    /\ led_on' = FALSE
    /\ ncall' = NRecord("_clear_notification", <<>>, <<>>, 0)
    /\ NLog(ClearCommands(led_on), <<>>)
    /\ UNCHANGED <<events, notified_keys, now, callbacks>>

\* one iteration of _monitor_loop, run without interference:
\* upcoming = self.check_notifications(); if upcoming: self._notify(upcoming)
\* else: self._clear_notification()
MonitorIteration ==
    LET r == CheckScan(events, 1, notified_keys, led_on, now)
        cmds == IF r.ret # <<>> THEN NotifyCommands(led_on)
                ELSE ClearCommands(led_on)
    IN  /\ notified_keys' = r.keys
        /\ led' = LedAfter(cmds, led)
        /\ led_on' = (r.ret # <<>>)
        /\ ncall' = NRecord("_monitor_loop", <<>>, r.ret, r.idx)
        /\ NLog(cmds, IF r.ret # <<>> THEN NotifyCallbacks(led_on, callbacks)
                      ELSE <<>>)
        /\ UNCHANGED <<events, now, callbacks>>

\* force_led_on()
ForceLedOn ==
    /\ led' = LedAfter(<<"on">>, led)
    /\ led_on' = TRUE
    /\ ncall' = NRecord("force_led_on", <<>>, <<>>, 0)
    /\ NLog(<<"on">>, <<>>)
    /\ UNCHANGED <<events, notified_keys, now, callbacks>>

\* force_led_off()
ForceLedOff ==
    /\ led' = LedAfter(<<"off">>, led)
    /\ led_on' = FALSE
    /\ ncall' = NRecord("force_led_off", <<>>, <<>>, 0)
    /\ NLog(<<"off">>, <<>>)
    /\ UNCHANGED <<events, notified_keys, now, callbacks>>

\* The instants at which the model looks at the clock: around the window of
\* a 10:00 and a 10:05 event on 2025-12-09, and once on the following day.
Hms(h, m, sec) == h * 3600 + m * 60 + sec

Today == Ordinal(2025, 12, 9)

NowSet ==
    {[day |-> Today, sec |-> x] :
        x \in {Hms(8, 0, 0), Hms(9, 49, 59), Hms(9, 50, 0), Hms(9, 55, 0),
               Hms(9, 59, 59), Hms(10, 0, 0), Hms(10, 5, 0)}}
    \cup {[day |-> Today + 1, sec |-> Hms(9, 55, 0)]}

Later(a, b) == a.day > b.day \/ (a.day = b.day /\ a.sec > b.sec)

\* the clock advances
Tick ==
    /\ \E t \in NowSet : Later(t, now) /\ now' = t
    /\ ncall' = NoNCall
    /\ nlog' = NoLog
    /\ nprev' = NoPrev
    /\ UNCHANGED <<events, notified_keys, led_on, led, callbacks>>

\* The events the data source may deliver
Meeting == [title |-> <<"M">>, start |-> <<"1", "0", ":", "0", "0">>,
            is_all_day |-> FALSE]

Call == [title |-> <<"C">>, start |-> <<"1", "0", ":", "0", "5">>]

Holiday == [title |-> <<"H">>, start |-> None, is_all_day |-> TRUE]

Birthday == [title |-> <<"M">>,
             start |-> <<"2", "0", "2", "5", "-", "1", "2", "-", "0", "9">>,
             is_all_day |-> TRUE]

Broken == [title |-> <<"B">>, start |-> <<"s", "o", "o", "n">>,
           is_all_day |-> FALSE]

\* an event without a "start" entry, and one whose start is the empty string
Unscheduled == [title |-> <<"U">>]

Unset == [title |-> <<"E">>, start |-> <<>>, is_all_day |-> FALSE]

EventPool == {Meeting, Call, Holiday, Birthday, Broken}

RECURSIVE SeqsUpTo(_, _)
SeqsUpTo(S, n) ==
    IF n = 0 THEN {<<>>}
    ELSE LET shorter == SeqsUpTo(S, n - 1)
         IN  shorter \cup {Append(q, x) : q \in shorter, x \in S}

EventLists == SeqsUpTo(EventPool, MaxEvents)

InitNotifier ==
    /\ events = <<>>
    /\ notified_keys = {}
    /\ led_on = FALSE
    /\ led = FALSE
    /\ ncall = NoNCall
    /\ callbacks = <<>>
    /\ nlog = NoLog
    /\ nprev = NoPrev

otherNotifier == <<rotVars, ctlVars, monVars, runVars>>

NextNotifier ==
    \/ \E L \in EventLists : UpdateEvents(L) /\ UNCHANGED otherNotifier
    \/ CheckNotifications /\ UNCHANGED otherNotifier
    \/ Notify /\ UNCHANGED otherNotifier
    \/ ClearNotification /\ UNCHANGED otherNotifier
    \/ MonitorIteration /\ UNCHANGED otherNotifier
    \/ Tick /\ UNCHANGED otherNotifier

\* the calls that drive the LED, made one after another by one thread
NextLed ==
    \/ AddNotificationCallback /\ UNCHANGED otherNotifier
    \/ Notify /\ UNCHANGED otherNotifier
    \/ ClearNotification /\ UNCHANGED otherNotifier
    \/ ForceLedOn /\ UNCHANGED otherNotifier
    \/ ForceLedOff /\ UNCHANGED otherNotifier

(***************************************************************************)
(* The watchdog's threads: the monitor threads created by start(), and the *)
(* thread that calls start(), stop() and is_running().  A monitor thread   *)
(* takes one step per statement that reads or writes shared state.         *)
(***************************************************************************)
MaxMonitors == 2

MonitorIds == 1..MaxMonitors

NoThread == 0

\* the monitor threads that start() has created so far
Born == {m \in MonitorIds : mpc[m] # "unborn"}

\* the monitor threads that are executing _monitor_loop
Live == {m \in MonitorIds : mpc[m] \notin {"unborn", "exited"}}

NoScan == [pre_on |-> FALSE, cmds |-> <<>>]

NoOp == [op |-> "none", pre_running |-> FALSE, pre_stop |-> FALSE,
         pre_thread |-> NoThread, pre_born |-> {}, cmds |-> <<>>,
         timed_out |-> FALSE, ret |-> FALSE, live |-> FALSE]

OpRecord(op, ret) ==
    [op |-> op, pre_running |-> notifier_running, pre_stop |-> wd_stop,
     pre_thread |-> wd_thread, pre_born |-> Born, cmds |-> <<>>,
     timed_out |-> FALSE, ret |-> ret,
     live |-> IF op = "start" THEN TRUE
              ELSE IF op = "stop" THEN FALSE ELSE wop.live]

AlreadyRunningIgnored == FALSE

\* start(): `if self._running: return`
AlreadyRunning == notifier_running

\* start()
Start ==
    /\ cpc = "idle"
    /\ wop' = OpRecord("start", FALSE)
    /\ IF AlreadyRunning
       THEN UNCHANGED <<notifier_running, wd_stop, wd_thread, mpc>>
       ELSE /\ Born # MonitorIds
            /\ LET m == CHOOSE x \in MonitorIds \ Born :
                            \A y \in MonitorIds \ Born : x <= y
               IN  /\ notifier_running' = TRUE
                   /\ wd_stop' = FALSE
                   /\ wd_thread' = m
                   /\ mpc' = [mpc EXCEPT ![m] = "loop"]
    /\ UNCHANGED <<cpc, scan, events, notified_keys, led_on, led, now, ncall>>

\* is_running()
IsRunning ==
    /\ cpc = "idle"
    /\ wop' = OpRecord("is_running", notifier_running)
    /\ UNCHANGED <<notifier_running, wd_stop, wd_thread, mpc, cpc, scan,
                   events, notified_keys, led_on, led, now, ncall>>

\* stop(): `if not self._running: return`, else _running = False and
\* _stop_event.set()
StopCall ==
    /\ cpc = "idle"
    /\ wop' = OpRecord("stop", FALSE)
    /\ IF ~notifier_running
       THEN UNCHANGED <<notifier_running, wd_stop, cpc>>
       ELSE /\ notifier_running' = FALSE
            /\ wd_stop' = TRUE
            /\ cpc' = "stop_join"
    /\ UNCHANGED <<wd_thread, mpc, scan, events, notified_keys, led_on, led,
                   now, ncall>>

\* stop(): `if self._thread: self._thread.join(timeout=5); self._thread =
\* None` - join returns when the thread has exited or 5 s have passed
StopJoin ==
    /\ cpc = "stop_join"
    /\ wop' = [wop EXCEPT !.timed_out =
                  wd_thread # NoThread /\ mpc[wd_thread] # "exited"]
    /\ wd_thread' = NoThread
    /\ cpc' = "stop_clear"
    /\ UNCHANGED <<notifier_running, wd_stop, mpc, scan, events,
                   notified_keys, led_on, led, now, ncall>>

\* stop(): _clear_notification() - `if self._led_on:`
StopClearTest ==
    /\ cpc = "stop_clear"
    /\ cpc' = IF led_on THEN "stop_off" ELSE "idle"
    /\ UNCHANGED scan
    /\ UNCHANGED <<notifier_running, wd_stop, wd_thread, mpc, wop, events,
                   notified_keys, led_on, led, now, ncall>>

\* stop(): _clear_notification() - led_driver.turn_off()
StopClearOff ==
    /\ cpc = "stop_off"
    /\ led' = LedAfter(<<"off">>, led)
    /\ wop' = [wop EXCEPT !.cmds = Append(@, "off")]
    /\ cpc' = "stop_flag"
    /\ UNCHANGED scan
    /\ UNCHANGED <<notifier_running, wd_stop, wd_thread, mpc, events,
                   notified_keys, led_on, now, ncall>>

\* stop(): _clear_notification() - self._led_on = False, and the return
StopClearFlag ==
    /\ cpc = "stop_flag"
    /\ led_on' = FALSE
    /\ cpc' = "idle"
    /\ UNCHANGED scan
    /\ UNCHANGED <<notifier_running, wd_stop, wd_thread, mpc, wop, events,
                   notified_keys, led, now, ncall>>

\* _monitor_loop: `while not self._stop_event.is_set():`, reached when the
\* thread starts and whenever _stop_event.wait(timeout=30) returns
MonLoop(m) ==
    /\ mpc[m] = "loop"
    /\ mpc' = [mpc EXCEPT ![m] = IF wd_stop THEN "final" ELSE "check"]
    /\ UNCHANGED <<notifier_running, wd_stop, wd_thread, cpc, scan, wop,
                   events, notified_keys, led_on, led, now, ncall>>

\* _monitor_loop: upcoming = self.check_notifications()
MonCheck(m) ==
    /\ mpc[m] = "check"
    /\ LET r == CheckScan(events, 1, notified_keys, led_on, now)
       IN  /\ notified_keys' = r.keys
           /\ mpc' = [mpc EXCEPT ![m] = IF r.ret # <<>> THEN "notify"
                                        ELSE "clear"]
    /\ scan' = [scan EXCEPT ![m] = NoScan]
    /\ UNCHANGED <<notifier_running, wd_stop, wd_thread, cpc, wop, events,
                   led_on, led, now, ncall>>

\* _notify: `if not self._led_on:`
MonNotifyTest(m) ==
    /\ mpc[m] = "notify"
    /\ mpc' = [mpc EXCEPT ![m] = IF NotifyCommands(led_on) # <<>>
                                 THEN "notify_on" ELSE "loop"]
    /\ scan' = [scan EXCEPT ![m] = [@ EXCEPT !.pre_on = led_on]]
    /\ UNCHANGED <<notifier_running, wd_stop, wd_thread, cpc, wop, events,
                   notified_keys, led_on, led, now, ncall>>

\* _notify: led_driver.turn_on()
MonNotifyOn(m) ==
    /\ mpc[m] = "notify_on"
    /\ led' = LedAfter(<<"on">>, led)
    /\ mpc' = [mpc EXCEPT ![m] = "notify_flag"]
    /\ scan' = [scan EXCEPT ![m] = [@ EXCEPT !.cmds = Append(@, "on")]]
    /\ UNCHANGED <<notifier_running, wd_stop, wd_thread, cpc, wop, events,
                   notified_keys, led_on, now, ncall>>

\* _notify: self._led_on = True, then the callbacks
MonNotifyFlag(m) ==
    /\ mpc[m] = "notify_flag"
    /\ led_on' = TRUE
    /\ mpc' = [mpc EXCEPT ![m] = "loop"]
    /\ UNCHANGED scan
    /\ UNCHANGED <<notifier_running, wd_stop, wd_thread, cpc, wop, events,
                   notified_keys, led, now, ncall>>

\* the positions of a monitor thread in _clear_notification, called in the
\* loop ("clear...") and after it ("final...")
ClearEntry == {"clear", "final"}

ClearOffAt(l) == IF l = "clear" THEN "clear_off" ELSE "final_off"

ClearFlagAt(l) == IF l = "clear_off" THEN "clear_flag" ELSE "final_flag"

ClearReturn(l) == IF l \in {"clear", "clear_flag"} THEN "loop" ELSE "exited"

\* _clear_notification: `if self._led_on:`
MonClearTest(m) ==
    /\ mpc[m] \in ClearEntry
    /\ mpc' = [mpc EXCEPT ![m] = IF ClearCommands(led_on) # <<>>
                                 THEN ClearOffAt(mpc[m])
                                 ELSE ClearReturn(mpc[m])]
    /\ scan' = [scan EXCEPT ![m] = [@ EXCEPT !.pre_on = led_on]]
    /\ UNCHANGED <<notifier_running, wd_stop, wd_thread, cpc, wop, events,
                   notified_keys, led_on, led, now, ncall>>

\* _clear_notification: led_driver.turn_off()
MonClearOff(m) ==
    /\ mpc[m] \in {"clear_off", "final_off"}
    /\ led' = LedAfter(<<"off">>, led)
    /\ mpc' = [mpc EXCEPT ![m] = ClearFlagAt(mpc[m])]
    /\ scan' = [scan EXCEPT ![m] = [@ EXCEPT !.cmds = Append(@, "off")]]
    /\ UNCHANGED <<notifier_running, wd_stop, wd_thread, cpc, wop, events,
                   notified_keys, led_on, now, ncall>>

\* _clear_notification: self._led_on = False
MonClearFlag(m) ==
    /\ mpc[m] \in {"clear_flag", "final_flag"}
    /\ led_on' = FALSE
    /\ mpc' = [mpc EXCEPT ![m] = ClearReturn(mpc[m])]
    /\ UNCHANGED scan
    /\ UNCHANGED <<notifier_running, wd_stop, wd_thread, cpc, wop, events,
                   notified_keys, led, now, ncall>>

\* the positions of a monitor thread inside the try block of its loop
MonIterationLabels ==
    {"check", "notify", "notify_on", "notify_flag", "clear", "clear_off",
     "clear_flag"}

\* a statement of the monitor loop's try block raises: control passes to
\* `except Exception as e: logger.exception(...)`
MonRaise(m) ==
    /\ mpc[m] \in MonIterationLabels
    /\ mpc' = [mpc EXCEPT ![m] = "caught"]
    /\ UNCHANGED <<notifier_running, wd_stop, wd_thread, cpc, scan, wop,
                   events, notified_keys, led_on, led, now, ncall>>

\* after the except clause: self._stop_event.wait(timeout=30)
MonCaught(m) ==
    /\ mpc[m] = "caught"
    /\ mpc' = [mpc EXCEPT ![m] = "loop"]
    /\ UNCHANGED <<notifier_running, wd_stop, wd_thread, cpc, scan, wop,
                   events, notified_keys, led_on, led, now, ncall>>

\* the lists the controller hands to update_events while the watchdog runs
WatchedLists == {<<>>, <<Holiday, Meeting>>}

\* update_events(L), called by a thread of the controller
Feed(L) ==
    /\ events' = FilterTimed(L)
    /\ UNCHANGED <<notifier_running, wd_stop, wd_thread, mpc, cpc, scan, wop,
                   notified_keys, led_on, led, now, ncall>>

\* the clock advances while the watchdog runs
Pass ==
    /\ \E t \in NowSet : Later(t, now) /\ now' = t
    /\ UNCHANGED <<notifier_running, wd_stop, wd_thread, mpc, cpc, scan, wop,
                   events, notified_keys, led_on, led, ncall>>

InitWatchdog ==
    /\ wd_stop = FALSE
    /\ wd_thread = NoThread
    /\ mpc = [m \in MonitorIds |-> "unborn"]
    /\ cpc = "idle"
    /\ scan = [m \in MonitorIds |-> NoScan]
    /\ wop = NoOp

otherWatchdog == <<rotVars, logVars, runVars, pc, ud, display_lock, panel,
                   epd, driver, stop_event, running, pressed, today_events>>

NextWatchdog ==
    \/ Start /\ UNCHANGED otherWatchdog
    \/ IsRunning /\ UNCHANGED otherWatchdog
    \/ StopCall /\ UNCHANGED otherWatchdog
    \/ StopJoin /\ UNCHANGED otherWatchdog
    \/ StopClearTest /\ UNCHANGED otherWatchdog
    \/ StopClearOff /\ UNCHANGED otherWatchdog
    \/ StopClearFlag /\ UNCHANGED otherWatchdog
    \/ \E m \in MonitorIds : MonLoop(m) /\ UNCHANGED otherWatchdog
    \/ \E m \in MonitorIds : MonCheck(m) /\ UNCHANGED otherWatchdog
    \/ \E m \in MonitorIds : MonNotifyTest(m) /\ UNCHANGED otherWatchdog
    \/ \E m \in MonitorIds : MonNotifyOn(m) /\ UNCHANGED otherWatchdog
    \/ \E m \in MonitorIds : MonNotifyFlag(m) /\ UNCHANGED otherWatchdog
    \/ \E m \in MonitorIds : MonClearTest(m) /\ UNCHANGED otherWatchdog
    \/ \E m \in MonitorIds : MonClearOff(m) /\ UNCHANGED otherWatchdog
    \/ \E m \in MonitorIds : MonClearFlag(m) /\ UNCHANGED otherWatchdog
    \/ \E L \in WatchedLists : Feed(L) /\ UNCHANGED otherWatchdog
    \/ Pass /\ UNCHANGED otherWatchdog

(***************************************************************************)
(* AppController.  The screens registered by __init__, in order.           *)
(***************************************************************************)
EventsTodayScreen == 1

EventsTomorrowScreen == 2

TasksScreen == 3

DHT11Screen == 4

JokeScreen == 5

RegisteredScreens ==
    <<EventsTodayScreen, EventsTomorrowScreen, TasksScreen, DHT11Screen,
      JokeScreen>>

\* the thread of run() and the three periodic workers
Main == "main"

Workers == {"refresh", "dht11", "joke"}

Threads == {Main} \cup Workers

WorkerScreenSwapped(t) == IF t = "dht11" THEN JokeScreen ELSE DHT11Screen

\* the screen a display worker refreshes
WorkerScreen(t) == IF t = "dht11" THEN DHT11Screen ELSE JokeScreen

\* what get_events_today() may deliver to EventsTodayScreen.get_data
FetchLists == {<<>>, <<Holiday, Meeting>>}

\* no _update_display call in progress
NoUpdate == [partial |-> FALSE, expected |-> NoScreen, image |-> NoScreen,
             stale |-> FALSE, ret |-> "none"]

\* thread t calls _update_display(use_partial, expected_screen) and will
\* return to label ret; `if self._epd is None: return` is decided at once
\* (_epd is assigned by the main thread before any worker exists)
CallUpdate(t, use_partial, expected_screen, ret) ==
    IF epd = "none"
    THEN /\ pc' = [pc EXCEPT ![t] = ret]
         /\ UNCHANGED ud
    ELSE /\ pc' = [pc EXCEPT ![t] = "ud_acquire"]
         /\ ud' = [ud EXCEPT ![t] = [NoUpdate EXCEPT !.partial = use_partial,
                                                     !.expected = expected_screen,
                                                     !.ret = ret]]

LockFreeIgnored == TRUE

\* Lock.acquire() succeeds only on an unlocked lock
LockFree == display_lock = "free"

\* `with self._display_lock:` (entry)
UdAcquire(t) ==
    /\ pc[t] = "ud_acquire"
    /\ LockFree
    /\ display_lock' = t
    /\ pc' = [pc EXCEPT ![t] = "ud_check"]
    /\ UNCHANGED <<ud, panel, epd, driver, stop_event, running, pressed,
                   today_events, notifier_running>>
    /\ UNCHANGED <<rotVars, notVars, logVars, monVars, runVars>>

SkipUpdateNever(expected_screen, cur) == FALSE

\* `expected_screen is not None and current_screen != expected_screen`
SkipUpdate(expected_screen, cur) ==
    expected_screen # NoScreen /\ cur # expected_screen

\* the screen-changed check made under the lock; ud[t].stale notes what the
\* check found
UdCheck(t) ==
    /\ pc[t] = "ud_check"
    /\ ud' = [ud EXCEPT ![t].stale =
                (ud[t].expected # NoScreen /\ current_screen # ud[t].expected)]
    /\ pc' = [pc EXCEPT ![t] = IF SkipUpdate(ud[t].expected, current_screen)
                               THEN "ud_skip" ELSE "ud_render"]
    /\ UNCHANGED <<display_lock, panel, epd, driver, stop_event, running,
                   pressed, today_events, notifier_running>>
    /\ UNCHANGED <<rotVars, notVars, logVars, monVars, runVars>>

\* the labels at which _update_display returns without a panel write: the
\* `return` of a stale update, and the end of the try block when
\* render_current() gave no image
SkipLabels == {"ud_skip", "ud_no_image"}

\* the return without a write: leaving the with block releases the lock
UdSkip(t) ==
    /\ pc[t] \in SkipLabels
    /\ pc' = [pc EXCEPT ![t] = ud[t].ret]
    /\ ud' = [ud EXCEPT ![t] = NoUpdate]
    /\ display_lock' = "free"
    /\ UNCHANGED <<panel, epd, driver, stop_event, running, pressed,
                   today_events, notifier_running>>
    /\ UNCHANGED <<rotVars, notVars, logVars, monVars, runVars>>

HasImageAlways(image) == TRUE

\* `if image:` - the panel write is attempted only with an image
HasImage(image) == image # NoScreen

\* image = render_current(); `if image:`
UdRender(t) ==
    /\ pc[t] = "ud_render"
    /\ \E renderOk \in BOOLEAN :
         LET image == render_current(renderOk)
         IN  /\ ud' = [ud EXCEPT ![t].image = image]
             /\ pc' = [pc EXCEPT ![t] = IF HasImage(image) THEN "ud_writing"
                                        ELSE "ud_no_image"]
    /\ UNCHANGED <<display_lock, panel, epd, driver, stop_event, running,
                   pressed, today_events, notifier_running>>
    /\ UNCHANGED <<rotVars, notVars, logVars, monVars, runVars>>

\* display_partial is used when asked for and the driver has it
UsesPartial(t) == ud[t].partial /\ driver = "mock"

UdWriteEndKeepsLock(t) ==
    /\ pc[t] = "ud_writing"
    /\ \E writeOk \in BOOLEAN :
         /\ panel' = IF writeOk
                     THEN [screen |-> ud[t].image, partial |-> UsesPartial(t)]
                     ELSE panel
         /\ display_lock' = IF writeOk THEN "free" ELSE display_lock
    /\ ud' = [ud EXCEPT ![t] = NoUpdate]
    /\ pc' = [pc EXCEPT ![t] = ud[t].ret]
    /\ UNCHANGED <<epd, driver, stop_event, running, pressed, today_events,
                   notifier_running>>
    /\ UNCHANGED <<rotVars, notVars, logVars, monVars, runVars>>

\* epd.display_partial(image) / epd.display(image) completes (or raises, which
\* is caught and logged); leaving the with block releases the lock
UdWriteEnd(t) ==
    /\ pc[t] = "ud_writing"
    /\ \E writeOk \in BOOLEAN :
         panel' = IF writeOk
                  THEN [screen |-> ud[t].image, partial |-> UsesPartial(t)]
                  ELSE panel
    /\ ud' = [ud EXCEPT ![t] = NoUpdate]
    /\ pc' = [pc EXCEPT ![t] = ud[t].ret]
    /\ display_lock' = "free"
    /\ UNCHANGED <<epd, driver, stop_event, running, pressed, today_events,
                   notifier_running>>
    /\ UNCHANGED <<rotVars, notVars, logVars, monVars, runVars>>

Blank == [screen |-> NoScreen, partial |-> FALSE]

\* the statements of run()'s try block, in order: what follows each
StartupOrder ==
    <<"init_display", "initialize", "first_update", "first_sync",
      "start_notifier", "start_flags", "start_refresh", "start_dht11",
      "start_joke", "loop">>

StartupFollowsSwapped(l) ==
    IF l = "first_update" THEN "start_notifier"
    ELSE IF l = "start_notifier" THEN "first_sync"
    ELSE IF l = "first_sync" THEN "start_flags"
    ELSE CHOOSE n \in {StartupOrder[i + 1] : i \in 1..(Len(StartupOrder) - 1)} :
            \E i \in 1..(Len(StartupOrder) - 1) :
                StartupOrder[i] = l /\ StartupOrder[i + 1] = n

\* the statement of run() that follows statement l
StartupFollows(l) ==
    CHOOSE n \in {StartupOrder[i + 1] : i \in 1..(Len(StartupOrder) - 1)} :
        \E i \in 1..(Len(StartupOrder) - 1) :
            StartupOrder[i] = l /\ StartupOrder[i + 1] = n

RaisedIgnored(l) == StartupFollows(l)

\* where run() goes on when statement l of the try block raises: `except
\* Exception` logs, `finally` calls shutdown()
Raised(l) == "sd_flags"

\* history: run() or shutdown() has performed step l
Did(l) == trace' = Append(trace, l)

\* run(): _init_display() - led_driver.turn_off(), get_epd(), init(), Clear();
\* a failure is re-raised, caught by run() and leads to shutdown()
RunInitDisplay ==
    /\ pc[Main] = "init_display"
    /\ led' = LedAfter(<<"off">>, led)
    /\ \/ /\ epd' = driver
          /\ panel' = Blank
          /\ pc' = [pc EXCEPT ![Main] = StartupFollows("init_display")]
          /\ Did("init_display")
          /\ UNCHANGED fault
       \/ /\ epd' \in {"none", driver}
          /\ UNCHANGED <<panel, trace>>
          /\ fault' = fault \cup {"init_display"}
          /\ pc' = [pc EXCEPT ![Main] = Raised("init_display")]
    /\ UNCHANGED <<ud, display_lock, driver, stop_event, running, pressed,
                   today_events, notifier_running, wthread, run_result>>
    /\ UNCHANGED <<rotVars, events, notified_keys, led_on, now, ncall,
                   logVars, monVars>>
    /\ UNCHANGED <<snap, ext, reading, recorded>>

\* EventsTodayScreen.get_data(): the fetched list, [] when the fetch fails
FetchToday == today_events' \in FetchLists

\* on_enter of screen s: every content screen calls its get_data()
OnEnter(s) ==
    IF s = EventsTodayScreen THEN FetchToday ELSE UNCHANGED today_events

\* run(): self._screen_manager.initialize()
RunInitialize ==
    /\ pc[Main] = "initialize"
    /\ OnEnter(screens[1])
    /\ pc' = [pc EXCEPT ![Main] = StartupFollows("initialize")]
    /\ Did("initialize")
    /\ UNCHANGED <<ud, display_lock, panel, epd, driver, stop_event, running,
                   pressed, notifier_running, fault, wthread, run_result>>
    /\ UNCHANGED <<rotVars, notVars, logVars, monVars>>
    /\ UNCHANGED <<snap, ext, reading, recorded>>

\* run(): self._update_display(use_partial=False)
RunFirstUpdate ==
    /\ pc[Main] = "first_update"
    /\ CallUpdate(Main, FALSE, NoScreen, StartupFollows("first_update"))
    /\ Did("first_update")
    /\ UNCHANGED <<display_lock, panel, epd, driver, stop_event, running,
                   pressed, today_events, notifier_running, fault, wthread,
                   run_result>>
    /\ UNCHANGED <<rotVars, notVars, logVars, monVars>>
    /\ UNCHANGED <<snap, ext, reading, recorded>>

\* _sync_notifier(): update_events(self._events_today_screen.get_events())
SyncNotifier == events' = FilterTimed(today_events)

\* run(): self._sync_notifier().  History: the first update, which has
\* returned, wrote nothing (its render or its panel write failed) exactly
\* when the panel still shows what Clear() left
RunFirstSync ==
    /\ pc[Main] = "first_sync"
    /\ SyncNotifier
    /\ pc' = [pc EXCEPT ![Main] = StartupFollows("first_sync")]
    /\ Did("first_sync")
    /\ fault' = IF panel = Blank THEN fault \cup {"first_update"} ELSE fault
    /\ UNCHANGED <<ud, display_lock, panel, epd, driver, stop_event, running,
                   pressed, today_events, notifier_running, wthread,
                   run_result>>
    /\ UNCHANGED <<rotVars, notified_keys, led_on, led, now, ncall,
                   logVars, monVars>>
    /\ UNCHANGED <<snap, ext, reading, recorded>>

\* run(): self._notifier.start().  Thread.start() either starts the monitor
\* thread or raises, which leaves a Thread object that was never started;
\* the steps of the monitor loop take no part in this specification
RunStartNotifier ==
    /\ pc[Main] = "start_notifier"
    /\ \/ /\ Start
          /\ pc' = [pc EXCEPT ![Main] = StartupFollows("start_notifier")]
          /\ Did("start_notifier")
          /\ UNCHANGED fault
       \/ /\ ~AlreadyRunning
          /\ Born # MonitorIds
          /\ wop' = OpRecord("start", FALSE)
          /\ notifier_running' = TRUE
          /\ wd_stop' = FALSE
          /\ wd_thread' = CHOOSE x \in MonitorIds \ Born :
                              \A y \in MonitorIds \ Born : x <= y
          /\ fault' = fault \cup {"start_notifier"}
          /\ pc' = [pc EXCEPT ![Main] = Raised("start_notifier")]
          /\ UNCHANGED <<mpc, trace, cpc, scan, events, notified_keys, led_on,
                         led, now, ncall>>
    /\ UNCHANGED <<ud, display_lock, panel, epd, driver, stop_event, running,
                   pressed, today_events, wthread, run_result>>
    /\ UNCHANGED <<rotVars, logVars>>
    /\ UNCHANGED <<snap, ext, reading, recorded>>

\* run(): _running = True, _stop_event.clear()
RunStartFlags ==
    /\ pc[Main] = "start_flags"
    /\ running' = TRUE
    /\ stop_event' = FALSE
    /\ pc' = [pc EXCEPT ![Main] = StartupFollows("start_flags")]
    /\ Did("start_flags")
    /\ UNCHANGED <<ud, display_lock, panel, epd, driver, pressed, today_events,
                   notifier_running, fault, wthread, run_result>>
    /\ UNCHANGED <<rotVars, notVars, logVars, monVars>>
    /\ UNCHANGED <<snap, ext, reading, recorded>>

\* the statements of run() that create and start worker t
StartLabel(t) ==
    IF t = "refresh" THEN "start_refresh"
    ELSE IF t = "dht11" THEN "start_dht11" ELSE "start_joke"

\* run(): self._<t>_thread = Thread(...); self._<t>_thread.start().
\* Thread.start() either starts the worker or raises, which leaves a Thread
\* object that was never started
RunStartWorker(t) ==
    /\ pc[Main] = StartLabel(t)
    /\ \/ /\ wthread' = [wthread EXCEPT ![t] = "started"]
          /\ pc' = [pc EXCEPT ![Main] = StartupFollows(StartLabel(t)),
                              ![t] = "check_stop"]
          /\ Did(StartLabel(t))
          /\ UNCHANGED fault
       \/ /\ wthread' = [wthread EXCEPT ![t] = "created"]
          /\ pc' = [pc EXCEPT ![Main] = Raised(StartLabel(t))]
          /\ fault' = fault \cup {StartLabel(t)}
          /\ UNCHANGED trace
    /\ UNCHANGED <<ud, display_lock, panel, epd, driver, stop_event, running,
                   pressed, today_events, notifier_running, run_result>>
    /\ UNCHANGED <<rotVars, notVars, logVars, monVars>>
    /\ UNCHANGED <<snap, ext, reading, recorded>>

\* the GPIO callback _on_pressed()
ButtonPress ==
    /\ ~pressed
    /\ pressed' = TRUE
    /\ recorded' = 1
    /\ UNCHANGED <<pc, ud, display_lock, panel, epd, driver, stop_event,
                   running, today_events, notifier_running>>
    /\ UNCHANGED <<rotVars, notVars, logVars, monVars, trace, fault, wthread,
                   run_result, snap, ext, reading>>

\* the most presses between two polls the model counts
MaxPresses == 3

\* the GPIO callback _on_pressed() while an earlier press is still recorded:
\* the flag is set again
ButtonPressAgain ==
    /\ pressed
    /\ recorded < MaxPresses
    /\ pressed' = TRUE
    /\ recorded' = recorded + 1
    /\ UNCHANGED <<pc, ud, display_lock, panel, epd, driver, stop_event,
                   running, today_events, notifier_running>>
    /\ UNCHANGED <<rotVars, notVars, logVars, monVars, trace, fault, wthread,
                   run_result, snap, ext, reading>>

button_was_pressedKeepsFlag(flag) == [ret |-> flag, flag |-> flag]

\* button_was_pressed(), under the module's lock: the value returned and the
\* flag afterwards
button_was_pressed(flag) ==
    IF flag THEN [ret |-> TRUE, flag |-> FALSE]
    ELSE [ret |-> FALSE, flag |-> flag]

\* one pass of `while self._running: if button_was_pressed(): ...; sleep(0.1)`
MainLoop ==
    /\ pc[Main] = "loop"
    /\ IF ~running
       THEN /\ pc' = [pc EXCEPT ![Main] = "sd_flags"]
            /\ UNCHANGED <<pressed, recorded>>
       ELSE /\ button_was_pressed(pressed).ret
            /\ pressed' = button_was_pressed(pressed).flag
            /\ recorded' = 0
            /\ pc' = [pc EXCEPT ![Main] = "h_next"]
    /\ UNCHANGED <<ud, display_lock, panel, epd, driver, stop_event, running,
                   today_events, notifier_running>>
    /\ UNCHANGED <<rotVars, notVars, logVars, monVars, trace, fault, wthread,
                   run_result, snap, ext, reading>>

\* handle_button_press(): next_screen() up to the index assignment
\* (on_exit of the outgoing screen does nothing)
HandleNext ==
    /\ pc[Main] = "h_next"
    /\ current_index' = NextIndex(current_index, Len(screens))
    /\ pc' = [pc EXCEPT ![Main] = "h_enter"]
    /\ UNCHANGED <<ud, display_lock, panel, epd, driver, stop_event, running,
                   pressed, today_events, notifier_running>>
    /\ UNCHANGED <<screens, call, prev, runStart, runVisited, balance,
                   last_entered, phase, notVars,
                   logVars, monVars, runVars>>

\* handle_button_press(): next_screen(), on_enter of the incoming screen,
\* and the call self._update_display()
HandleEnter ==
    /\ pc[Main] = "h_enter"
    /\ OnEnter(current_screen)
    /\ CallUpdate(Main, FALSE, NoScreen, "h_sync")
    /\ UNCHANGED <<display_lock, panel, epd, driver, stop_event, running,
                   pressed, notifier_running>>
    /\ UNCHANGED <<rotVars, notVars, logVars, monVars, runVars>>

\* handle_button_press(): sync the notifier when on the events screen
HandleSync ==
    /\ pc[Main] = "h_sync"
    /\ IF current_screen = EventsTodayScreen THEN SyncNotifier
       ELSE UNCHANGED events
    /\ pc' = [pc EXCEPT ![Main] = "loop"]
    /\ UNCHANGED <<ud, display_lock, panel, epd, driver, stop_event, running,
                   pressed, today_events, notifier_running>>
    /\ UNCHANGED <<rotVars, notified_keys, led_on, led, now, ncall,
                   logVars, monVars, runVars>>

\* the labels of run() inside its try block
TryLabels ==
    {"initialize", "first_update", "first_sync", "start_notifier",
     "start_flags", "start_refresh", "start_dht11", "start_joke",
     "loop", "h_next", "h_enter", "h_sync",
     "ud_acquire", "ud_check", "ud_skip", "ud_render", "ud_no_image",
     "ud_writing"}

\* KeyboardInterrupt in run(): control leaves the try block for shutdown();
\* unwinding a with block releases the display lock
Interrupt ==
    /\ pc[Main] \in TryLabels
    /\ pc' = [pc EXCEPT ![Main] = "sd_flags"]
    /\ display_lock' = IF display_lock = Main THEN "free" ELSE display_lock
    /\ ud' = [ud EXCEPT ![Main] = NoUpdate]
    /\ UNCHANGED <<panel, epd, driver, stop_event, running, pressed,
                   today_events, notifier_running>>
    /\ UNCHANGED <<rotVars, notVars, logVars, monVars, runVars>>

\* the steps of shutdown(), in order
ShutdownOrder ==
    <<"sd_flags", "sd_notifier", "sd_join_refresh", "sd_join_dht11",
      "sd_join_joke", "sd_clear", "done">>

ShutdownFollowsClearFirst(l) ==
    IF l = "sd_notifier" THEN "sd_clear"
    ELSE IF l = "sd_clear" THEN "sd_join_refresh"
    ELSE IF l = "sd_join_joke" THEN "done"
    ELSE CHOOSE n \in {ShutdownOrder[i + 1] : i \in 1..(Len(ShutdownOrder) - 1)} :
            \E i \in 1..(Len(ShutdownOrder) - 1) :
                ShutdownOrder[i] = l /\ ShutdownOrder[i + 1] = n

\* the step of shutdown() that follows step l
ShutdownFollows(l) ==
    CHOOSE n \in {ShutdownOrder[i + 1] : i \in 1..(Len(ShutdownOrder) - 1)} :
        \E i \in 1..(Len(ShutdownOrder) - 1) :
            ShutdownOrder[i] = l /\ ShutdownOrder[i + 1] = n

\* shutdown(): _running = False; _stop_event.set()
ShutdownFlags ==
    /\ pc[Main] = "sd_flags"
    /\ running' = FALSE
    /\ stop_event' = TRUE
    /\ pc' = [pc EXCEPT ![Main] = ShutdownFollows("sd_flags")]
    /\ Did("sd_flags")
    /\ UNCHANGED <<ud, display_lock, panel, epd, driver, pressed, today_events,
                   notifier_running, fault, wthread, run_result>>
    /\ UNCHANGED <<rotVars, notVars, logVars, monVars>>
    /\ UNCHANGED <<snap, ext, reading, recorded>>

\* Thread.join() raises RuntimeError on a thread that was never started
JoinRaises(started) == ~started

\* shutdown(): self._notifier.stop() - the flags, the bounded join of the
\* monitor thread and the final _clear_notification(); an exception of the
\* join leaves shutdown() and, through the finally clause, run()
ShutdownNotifier ==
    /\ pc[Main] = "sd_notifier"
    /\ wop' = OpRecord("stop", FALSE)
    /\ IF ~notifier_running
       THEN /\ pc' = [pc EXCEPT ![Main] = ShutdownFollows("sd_notifier")]
            /\ Did("sd_notifier")
            /\ UNCHANGED <<notifier_running, wd_stop, wd_thread, led, led_on,
                           run_result>>
       ELSE /\ notifier_running' = FALSE
            /\ wd_stop' = TRUE
            /\ IF wd_thread # NoThread /\ JoinRaises(wd_thread \in Born)
               THEN /\ pc' = [pc EXCEPT ![Main] = "done"]
                    /\ run_result' = "raised"
                    /\ UNCHANGED <<wd_thread, led, led_on, trace>>
               ELSE /\ wd_thread' = NoThread
                    /\ led' = LedAfter(ClearCommands(led_on), led)
                    /\ led_on' = FALSE
                    /\ pc' = [pc EXCEPT ![Main] = ShutdownFollows("sd_notifier")]
                    /\ Did("sd_notifier")
                    /\ UNCHANGED run_result
    /\ UNCHANGED <<ud, display_lock, panel, epd, driver, stop_event, running,
                   pressed, today_events, fault, wthread>>
    /\ UNCHANGED <<rotVars, events, notified_keys, now, ncall, logVars,
                   mpc, cpc, scan>>
    /\ UNCHANGED <<snap, ext, reading, recorded>>

\* the step of shutdown() that joins worker t
JoinLabel(t) ==
    IF t = "refresh" THEN "sd_join_refresh"
    ELSE IF t = "dht11" THEN "sd_join_dht11" ELSE "sd_join_joke"

\* shutdown(): `if self._<t>_thread: self._<t>_thread.join(timeout=5);
\* self._<t>_thread = None` - the join returns when the thread has exited or
\* 5 s have passed, and raises when the thread was never started
ShutdownJoin(t) ==
    /\ pc[Main] = JoinLabel(t)
    /\ IF wthread[t] = "none"
       THEN /\ pc' = [pc EXCEPT ![Main] = ShutdownFollows(JoinLabel(t))]
            /\ UNCHANGED <<wthread, trace, run_result>>
       ELSE IF JoinRaises(wthread[t] = "started")
       THEN /\ pc' = [pc EXCEPT ![Main] = "done"]
            /\ run_result' = "raised"
            /\ UNCHANGED <<wthread, trace>>
       ELSE /\ wthread' = [wthread EXCEPT ![t] = "none"]
            /\ pc' = [pc EXCEPT ![Main] = ShutdownFollows(JoinLabel(t))]
            /\ Did(JoinLabel(t))
            /\ UNCHANGED run_result
    /\ UNCHANGED <<ud, display_lock, panel, epd, driver, stop_event, running,
                   pressed, today_events, notifier_running, fault>>
    /\ UNCHANGED <<rotVars, notVars, logVars, monVars>>
    /\ UNCHANGED <<snap, ext, reading, recorded>>

\* shutdown(): `if self._epd:` Clear() and sleep(), errors logged; then
\* shutdown() and run() return
ShutdownClear ==
    /\ pc[Main] = "sd_clear"
    /\ IF epd # "none"
       THEN panel' \in {Blank, panel} /\ Did("sd_clear")
       ELSE UNCHANGED <<panel, trace>>
    /\ pc' = [pc EXCEPT ![Main] = ShutdownFollows("sd_clear")]
    /\ run_result' = "returned"
    /\ UNCHANGED <<ud, display_lock, epd, driver, stop_event, running, pressed,
                   today_events, notifier_running, fault, wthread>>
    /\ UNCHANGED <<rotVars, notVars, logVars, monVars>>
    /\ UNCHANGED <<snap, ext, reading, recorded>>

\* main(): 0 when app.run() returns, 1 when it raises
ExitCode(result) == IF result = "raised" THEN 1 ELSE 0

\* `while not self._stop_event.is_set():` of a worker loop, reached at the
\* start of the thread and whenever _stop_event.wait(timeout) returns
WorkerCheckStop(t) ==
    /\ pc[t] = "check_stop"
    /\ pc' = [pc EXCEPT ![t] =
                IF stop_event THEN "exited"
                ELSE IF t = "refresh" THEN "fetch" ELSE "check_screen"]
    /\ UNCHANGED <<ud, display_lock, panel, epd, driver, stop_event, running,
                   pressed, today_events, notifier_running>>
    /\ UNCHANGED <<rotVars, notVars, logVars, monVars, runVars>>

\* _refresh_data_loop: self._events_today_screen.get_data()
RefreshFetch ==
    /\ pc["refresh"] = "fetch"
    /\ FetchToday
    /\ pc' = [pc EXCEPT !["refresh"] = "sync"]
    /\ UNCHANGED <<ud, display_lock, panel, epd, driver, stop_event, running,
                   pressed, notifier_running>>
    /\ UNCHANGED <<rotVars, notVars, logVars, monVars, runVars>>

\* _refresh_data_loop: self._sync_notifier()
RefreshSync ==
    /\ pc["refresh"] = "sync"
    /\ SyncNotifier
    /\ pc' = [pc EXCEPT !["refresh"] = "check_stop"]
    /\ UNCHANGED <<ud, display_lock, panel, epd, driver, stop_event, running,
                   pressed, today_events, notifier_running>>
    /\ UNCHANGED <<rotVars, notified_keys, led_on, led, now, ncall,
                   logVars, monVars, runVars>>

\* _dht11_refresh_loop / _joke_refresh_loop: only on the worker's own screen
WorkerCheckScreen(t) ==
    /\ pc[t] = "check_screen"
    /\ pc' = [pc EXCEPT ![t] = IF current_screen = WorkerScreen(t)
                               THEN "get_data" ELSE "check_stop"]
    /\ UNCHANGED <<ud, display_lock, panel, epd, driver, stop_event, running,
                   pressed, today_events, notifier_running>>
    /\ UNCHANGED <<rotVars, notVars, logVars, monVars, runVars>>

\* get_data() of the worker's screen, then
\* _update_display(use_partial, expected_screen=<the worker's screen>)
WorkerRefresh(t) ==
    /\ pc[t] = "get_data"
    /\ CallUpdate(t, t = "dht11", WorkerScreen(t), "check_stop")
    /\ UNCHANGED <<display_lock, panel, epd, driver, stop_event, running,
                   pressed, today_events, notifier_running>>
    /\ UNCHANGED <<rotVars, notVars, logVars, monVars, runVars>>

\* the statements of worker t's try block outside _update_display (which
\* catches its own exceptions)
IterationLabels(t) ==
    IF t = "refresh" THEN {"fetch", "sync"} ELSE {"check_screen", "get_data"}

WorkerRaiseKills(t) ==
    /\ pc[t] \in IterationLabels(t)
    /\ pc' = [pc EXCEPT ![t] = "exited"]
    /\ UNCHANGED <<ud, display_lock, panel, epd, driver, stop_event, running,
                   pressed, today_events, notifier_running>>
    /\ UNCHANGED <<rotVars, notVars, logVars, monVars, runVars>>

\* a statement of worker t's try block raises: control passes to the loop's
\* `except Exception as e: logger.exception(...)`
WorkerRaise(t) ==
    /\ pc[t] \in IterationLabels(t)
    /\ pc' = [pc EXCEPT ![t] = "caught"]
    /\ UNCHANGED <<ud, display_lock, panel, epd, driver, stop_event, running,
                   pressed, today_events, notifier_running>>
    /\ UNCHANGED <<rotVars, notVars, logVars, monVars, runVars>>

\* after the except clause: self._stop_event.wait(timeout=...)
WorkerCaught(t) ==
    /\ pc[t] = "caught"
    /\ pc' = [pc EXCEPT ![t] = "check_stop"]
    /\ UNCHANGED <<ud, display_lock, panel, epd, driver, stop_event, running,
                   pressed, today_events, notifier_running>>
    /\ UNCHANGED <<rotVars, notVars, logVars, monVars, runVars>>

\* shutdown() called by a thread other than the one in run(), as one call:
\* the flags, notifier.stop(), the joins of the worker threads that exist
\* (each returns when its thread has ended or after 5 s), the panel Clear.
\* A join of a Thread that was never started raises out of shutdown().
ExternalShutdown ==
    /\ ext = "none"
    /\ pc[Main] # "done"
    /\ running' = FALSE
    /\ stop_event' = TRUE
    /\ LET stopRaises == /\ notifier_running
                         /\ wd_thread # NoThread
                         /\ JoinRaises(wd_thread \in Born)
           joinRaises == \E t \in Workers :
                            wthread[t] # "none" /\ JoinRaises(wthread[t] = "started")
       IN  /\ notifier_running' = FALSE
           /\ wd_stop' = IF notifier_running THEN TRUE ELSE wd_stop
           /\ IF notifier_running /\ ~stopRaises
              THEN /\ wd_thread' = NoThread
                   /\ led' = LedAfter(ClearCommands(led_on), led)
                   /\ led_on' = FALSE
              ELSE UNCHANGED <<wd_thread, led, led_on>>
           /\ wthread' = [t \in Workers |->
                            IF ~stopRaises /\ wthread[t] = "started" THEN "none"
                            ELSE wthread[t]]
           /\ IF stopRaises \/ joinRaises \/ epd = "none"
              THEN UNCHANGED panel
              ELSE panel' \in {Blank, panel}
           /\ ext' = IF stopRaises \/ joinRaises THEN "raised" ELSE "returned"
    /\ UNCHANGED <<pc, ud, display_lock, epd, driver, pressed, today_events>>
    /\ UNCHANGED <<rotVars, events, notified_keys, now, ncall, logVars,
                   mpc, cpc, scan, wop, trace, fault, run_result, snap, reading, recorded>>

\* the threads that call _sync_notifier
SyncThreads == {Main, "refresh"}

\* where thread t is when it calls _sync_notifier
SyncLabel(t) == IF t = Main THEN "h_sync" ELSE "sync"

\* where thread t goes when _sync_notifier has returned
SyncReturn(t) == IF t = Main THEN "loop" ELSE "check_stop"

\* _sync_notifier, first statement: events = self._events_today_screen
\* .get_events(), which returns the list object get_data() stored last.
\* The foreground calls it only `if current_screen is _events_today_screen`.
SyncRead(t) ==
    /\ pc[t] = SyncLabel(t)
    /\ IF t = Main /\ current_screen # EventsTodayScreen
       THEN /\ pc' = [pc EXCEPT ![t] = SyncReturn(t)]
            /\ UNCHANGED snap
       ELSE /\ pc' = [pc EXCEPT ![t] = "sync_update"]
            /\ snap' = [snap EXCEPT ![t] = today_events]
    /\ UNCHANGED <<ud, display_lock, panel, epd, driver, stop_event, running,
                   pressed, today_events, notifier_running>>
    /\ UNCHANGED <<rotVars, notVars, logVars, monVars, trace, fault, wthread,
                   run_result, ext, reading, recorded>>

\* _sync_notifier, second statement: self._notifier.update_events(events)
SyncUpdate(t) ==
    /\ pc[t] = "sync_update"
    /\ events' = FilterTimed(snap[t])
    /\ snap' = [snap EXCEPT ![t] = <<>>]
    /\ pc' = [pc EXCEPT ![t] = SyncReturn(t)]
    /\ UNCHANGED <<ud, display_lock, panel, epd, driver, stop_event, running,
                   pressed, today_events, notifier_running>>
    /\ UNCHANGED <<rotVars, notified_keys, led_on, led, now, ncall, logVars,
                   monVars, trace, fault, wthread, run_result, ext, reading, recorded>>

InitController ==
    /\ pc = [t \in Threads |-> IF t = Main THEN "init_display" ELSE "idle"]
    /\ ud = [t \in Threads |-> NoUpdate]
    /\ display_lock = "free"
    /\ panel = Blank
    /\ epd = "none"
    /\ driver \in {"mock", "waveshare"}
    /\ stop_event = FALSE
    /\ running = FALSE
    /\ pressed = FALSE
    /\ today_events = <<>>
    /\ notifier_running = FALSE
    /\ trace = <<>>
    /\ fault = {}
    /\ wthread = [t \in Workers |-> "none"]
    /\ run_result = "none"
    /\ snap = [t \in SyncThreads |-> <<>>]
    /\ ext = "none"
    /\ reading = "none"
    /\ recorded = 0

(***************************************************************************)
(* Specifications                                                          *)
(***************************************************************************)
\* a controller that is constructed and never run
IdleController == InitController /\ driver = "mock"

InitRotator ==
    /\ InitManager
    /\ InitNotifier
    /\ InitWatchdog
    /\ IdleController
    /\ now = [day |-> Today, sec |-> Hms(8, 0, 0)]

NextRotator ==
    \/ \E s \in ScreenPool : RegisterScreen(s) /\ UNCHANGED <<notVars, ctlVars, logVars, monVars, runVars>>
    \/ Initialize /\ UNCHANGED <<notVars, ctlVars, logVars, monVars, runVars>>
    \/ NextScreen /\ UNCHANGED <<notVars, ctlVars, logVars, monVars, runVars>>
    \/ PreviousScreen /\ UNCHANGED <<notVars, ctlVars, logVars, monVars, runVars>>
    \/ \E i \in -1..(MaxScreens + 1) : GoToScreen(i) /\ UNCHANGED <<notVars, ctlVars, logVars, monVars, runVars>>

SpecRotator == InitRotator /\ [][NextRotator]_vars

InitNotifierSpec ==
    /\ InitManager
    /\ InitNotifier
    /\ InitWatchdog
    /\ IdleController
    /\ now \in NowSet

SpecNotifier == InitNotifierSpec /\ [][NextNotifier]_vars

SpecLed == InitNotifierSpec /\ [][NextLed]_vars

\* The scans of a working set that holds events without a usable start: the
\* working set is what an earlier update_events call left, and the calls of
\* the monitor loop are made one after another while the clock advances.
UnusablePool == {Unscheduled, Unset, Broken, Meeting}

InitUnusable ==
    /\ InitManager
    /\ InitWatchdog
    /\ IdleController
    /\ events \in SeqsUpTo(UnusablePool, MaxEvents)
    /\ notified_keys = {}
    /\ led_on = FALSE
    /\ led = FALSE
    /\ ncall = NoNCall
    /\ callbacks = <<>>
    /\ nlog = NoLog
    /\ nprev = NoPrev
    /\ now \in NowSet

NextUnusable ==
    \/ CheckNotifications /\ UNCHANGED otherNotifier
    \/ Notify /\ UNCHANGED otherNotifier
    \/ ClearNotification /\ UNCHANGED otherNotifier
    \/ MonitorIteration /\ UNCHANGED otherNotifier
    \/ Tick /\ UNCHANGED otherNotifier

SpecUnusable == InitUnusable /\ [][NextUnusable]_vars

\* the watchdog of a controller that is constructed and never run, a little
\* before the lead-time window of the 10:00 event opens
InitWatchdogSpec ==
    /\ InitManager
    /\ InitNotifier
    /\ InitWatchdog
    /\ IdleController
    /\ now = [day |-> Today, sec |-> Hms(9, 49, 59)]

SpecWatchdog == InitWatchdogSpec /\ [][NextWatchdog]_vars

\* the controller after __init__: five screens registered, nothing running
Constructed ==
    /\ screens = RegisteredScreens
    /\ current_index = 0
    /\ call = NoCall
    /\ prev = NoCall
    /\ runStart = 0
    /\ runVisited = <<>>
    /\ balance = NoHooks
    /\ last_entered = NoScreen
    /\ phase = "fresh"
    /\ InitNotifier
    /\ InitWatchdog
    /\ InitController

Init ==
    /\ Constructed
    /\ now = [day |-> Today, sec |-> Hms(8, 0, 0)]

Next ==
    \/ RunInitDisplay
    \/ RunInitialize
    \/ RunFirstUpdate
    \/ RunFirstSync
    \/ RunStartNotifier
    \/ RunStartFlags
    \/ \E t \in Workers : RunStartWorker(t)
    \/ ButtonPress
    \/ MainLoop
    \/ HandleNext
    \/ HandleEnter
    \/ HandleSync
    \/ Interrupt
    \/ ShutdownFlags
    \/ ShutdownNotifier
    \/ \E t \in Workers : ShutdownJoin(t)
    \/ ShutdownClear
    \/ RefreshFetch
    \/ RefreshSync
    \/ \E t \in Workers : WorkerCheckStop(t)
    \/ \E t \in Workers \ {"refresh"} : WorkerCheckScreen(t)
    \/ \E t \in Workers \ {"refresh"} : WorkerRefresh(t)
    \/ \E t \in Threads : UdAcquire(t)
    \/ \E t \in Threads : UdCheck(t)
    \/ \E t \in Threads \ {Main} : UdSkip(t)
    \/ \E t \in Threads : UdRender(t)
    \/ \E t \in Threads : UdWriteEnd(t)

Spec == Init /\ [][Next]_vars

\* The controller with its watchdog's monitor loop, left alone by the user:
\* no button is pressed, so the rotator stays on the events screen.  The
\* run is short: the clock reads 08:00, or 09:55 (inside the window of the
\* 10:00 event), throughout.  Any statement of a loop iteration may raise.
InitRun ==
    /\ Constructed
    /\ now \in {[day |-> Today, sec |-> Hms(8, 0, 0)],
                [day |-> Today, sec |-> Hms(9, 55, 0)]}

NextRun ==
    \/ RunInitDisplay
    \/ RunInitialize
    \/ RunFirstUpdate
    \/ RunFirstSync
    \/ RunStartNotifier
    \/ RunStartFlags
    \/ \E t \in Workers : RunStartWorker(t)
    \/ UdAcquire(Main)
    \/ UdCheck(Main)
    \/ UdRender(Main)
    \/ UdWriteEnd(Main)
    \/ Interrupt
    \/ ShutdownFlags
    \/ ShutdownNotifier
    \/ \E t \in Workers : ShutdownJoin(t)
    \/ ShutdownClear
    \/ RefreshFetch
    \/ RefreshSync
    \/ \E t \in Workers : WorkerCheckStop(t)
    \/ \E t \in Workers \ {"refresh"} : WorkerCheckScreen(t)
    \/ \E t \in Workers : WorkerRaise(t)
    \/ \E t \in Workers : WorkerCaught(t)
    \/ \E m \in MonitorIds : MonLoop(m) /\ UNCHANGED otherWatchdog
    \/ \E m \in MonitorIds : MonCheck(m) /\ UNCHANGED otherWatchdog
    \/ \E m \in MonitorIds : MonNotifyTest(m) /\ UNCHANGED otherWatchdog
    \/ \E m \in MonitorIds : MonNotifyOn(m) /\ UNCHANGED otherWatchdog
    \/ \E m \in MonitorIds : MonNotifyFlag(m) /\ UNCHANGED otherWatchdog
    \/ \E m \in MonitorIds : MonClearTest(m) /\ UNCHANGED otherWatchdog
    \/ \E m \in MonitorIds : MonClearOff(m) /\ UNCHANGED otherWatchdog
    \/ \E m \in MonitorIds : MonClearFlag(m) /\ UNCHANGED otherWatchdog
    \/ \E m \in MonitorIds : MonRaise(m) /\ UNCHANGED otherWatchdog
    \/ \E m \in MonitorIds : MonCaught(m) /\ UNCHANGED otherWatchdog

SpecRun == InitRun /\ [][NextRun]_vars

\* The foreground and the data-refresh worker, with _sync_notifier taken
\* statement by statement: the user presses the button, the worker fetches
\* and syncs periodically.  The sensor and joke workers are started and
\* then wait; nothing fails after the display has been initialised.
NextSync ==
    \/ RunInitDisplay
    \/ RunInitialize
    \/ RunFirstUpdate
    \/ RunFirstSync
    \/ RunStartNotifier
    \/ RunStartFlags
    \/ \E t \in Workers : RunStartWorker(t)
    \/ UdAcquire(Main)
    \/ UdCheck(Main)
    \/ UdRender(Main)
    \/ UdWriteEnd(Main)
    \/ ButtonPress
    \/ ButtonPressAgain
    \/ MainLoop
    \/ HandleNext
    \/ HandleEnter
    \/ WorkerCheckStop("refresh")
    \/ RefreshFetch
    \/ \E t \in SyncThreads : SyncRead(t)
    \/ \E t \in SyncThreads : SyncUpdate(t)

SpecSync == Init /\ [][NextSync]_vars

\* The controller with its monitor loop while another thread calls
\* shutdown() once, at any point of run().  No button is pressed and no
\* event is due.
NextExternal ==
    \/ RunInitDisplay
    \/ RunInitialize
    \/ RunFirstUpdate
    \/ RunFirstSync
    \/ RunStartNotifier
    \/ RunStartFlags
    \/ \E t \in Workers : RunStartWorker(t)
    \/ UdAcquire(Main)
    \/ UdCheck(Main)
    \/ UdRender(Main)
    \/ UdWriteEnd(Main)
    \/ MainLoop
    \/ ExternalShutdown
    \/ ShutdownFlags
    \/ ShutdownNotifier
    \/ \E t \in Workers : ShutdownJoin(t)
    \/ ShutdownClear
    \/ RefreshFetch
    \/ RefreshSync
    \/ \E t \in Workers : WorkerCheckStop(t)
    \/ \E t \in Workers \ {"refresh"} : WorkerCheckScreen(t)
    \/ \E m \in MonitorIds : MonLoop(m) /\ UNCHANGED otherWatchdog
    \/ \E m \in MonitorIds : MonCheck(m) /\ UNCHANGED otherWatchdog
    \/ \E m \in MonitorIds : MonClearTest(m) /\ UNCHANGED otherWatchdog

SpecExternal == Init /\ [][NextExternal]_vars

(***************************************************************************)
(* Claims about the display gate (checked under Spec)                      *)
(***************************************************************************)
\* the labels of _update_display between acquiring and releasing the lock
CriticalLabels ==
    {"ud_check", "ud_skip", "ud_render", "ud_no_image", "ud_writing"}

\* C1: at most one _update_display call is inside the critical section
\* "render the current screen, then write to the panel", and two panel
\* writes are never in progress at the same time.
C1_OneUpdateInFlight ==
    /\ Cardinality({t \in Threads : pc[t] \in CriticalLabels}) <= 1
    /\ Cardinality({t \in Threads : pc[t] = "ud_writing"}) <= 1
    /\ \A t \in Threads : pc[t] \in CriticalLabels => display_lock = t

C1_Witness ==
    /\ pc["dht11"] = "ud_writing"
    /\ pc[Main] = "ud_acquire"
    /\ display_lock = "dht11"

\* C2: an _update_display call given expected_screen = X that finds, once it
\* holds the lock, that the current screen is not X goes on to neither the
\* render nor the panel write: it only returns.
C2_StaleUpdateSkipped ==
    \A t \in Threads :
        ud[t].stale => (pc[t] = "ud_skip" /\ ud[t].image = NoScreen)

C2_Witness ==
    /\ pc["dht11"] = "ud_skip"
    /\ ud["dht11"].stale
    /\ ud["dht11"].expected = DHT11Screen
    /\ current_screen = JokeScreen
    /\ panel.screen = JokeScreen
    /\ pc[Main] = "h_sync"

(***************************************************************************)
(* Claims about the ScreenManager (checked under SpecRotator)              *)
(***************************************************************************)
TransitionOps == {"next_screen", "previous_screen", "go_to_screen"}

\* C3: for N >= 1 screens and any starting index, k consecutive next_screen
\* calls lead to index (start + k) mod N; N of them return to the starting
\* index and screen, having visited every screen once in registration order.
C3_NextCyclesBack ==
    Len(screens) >= 1 =>
        /\ Len(runVisited) <= Len(screens)
        /\ current_index = (runStart + Len(runVisited)) % Len(screens)
        /\ \A k \in 1..Len(runVisited) :
              runVisited[k] = screens[((runStart + k) % Len(screens)) + 1]
        /\ Len(runVisited) = Len(screens) =>
              /\ current_index = runStart
              /\ current_screen = screens[runStart + 1]
              /\ \A s \in {screens[i] : i \in 1..Len(screens)} :
                    Cardinality({k \in 1..Len(runVisited) : runVisited[k] = s}) = 1

C3_Witness ==
    /\ Len(screens) = 4
    /\ Len(runVisited) = 4
    /\ runStart = 0
    /\ runVisited[3] = screens[4]
    /\ current_index = 0

\* C4: previous_screen followed by next_screen, and next_screen followed by
\* previous_screen, restore the index; previous_screen from index 0 wraps to
\* N - 1.
C4_PrevNextInverse ==
    /\ (/\ prev.n >= 1
        /\ call.n = prev.n
        /\ <<prev.op, call.op>> \in {<<"previous_screen", "next_screen">>,
                                     <<"next_screen", "previous_screen">>})
       => current_index = prev.pre
    /\ (call.op = "previous_screen" /\ call.n >= 1 /\ call.pre = 0)
       => current_index = call.n - 1

C4_Witness ==
    /\ prev.op = "previous_screen"
    /\ call.op = "next_screen"
    /\ prev.pre = 0
    /\ prev.n >= 3
    /\ call.pre = prev.n - 1

\* C5: go_to_screen(i) with i outside [0, N) returns None, leaves the index
\* unchanged and calls no hook; with i inside it sets the index to i and
\* returns screen i, which is not None.
C5_GoToScreen ==
    call.op = "go_to_screen" =>
        IF call.arg < 0 \/ call.arg >= call.n
        THEN /\ call.ret = NoScreen
             /\ current_index = call.pre
             /\ call.hooks = <<>>
        ELSE /\ current_index = call.arg
             /\ call.ret = screens[call.arg + 1]
             /\ call.ret # NoScreen

C5_Witness ==
    /\ call.op = "go_to_screen"
    /\ call.n >= 2
    /\ call.arg < 0
    /\ call.pre > 0

\* C6: the index is always within [0, N) when N > 0; with N = 0 it is 0,
\* current_screen and render_current are None, and next/previous/goto return
\* None and call no hook.
C6_IndexValid ==
    /\ Len(screens) > 0 => (0 <= current_index /\ current_index < Len(screens))
    /\ Len(screens) = 0 =>
          /\ current_index = 0
          /\ current_screen = NoScreen
          /\ \A ok \in BOOLEAN : render_current(ok) = NoScreen
          /\ call.op \in TransitionOps => (call.ret = NoScreen /\ call.hooks = <<>>)

C6_Witness ==
    /\ Len(screens) = 0
    /\ call.op = "previous_screen"
    /\ prev.op = "go_to_screen"

\* C7: a successful transition calls on_exit on the outgoing screen once,
\* then assigns the index, then calls on_enter on the incoming screen once,
\* calls no other hook, and returns the new current screen.
C7_HookOrder ==
    (call.op \in TransitionOps /\ call.ret # NoScreen) =>
        /\ Len(call.hooks) = 3
        /\ call.hooks[1] = <<"on_exit", screens[call.pre + 1]>>
        /\ call.hooks[2] = <<"set_index", current_index>>
        /\ call.hooks[3] = <<"on_enter", screens[current_index + 1]>>
        /\ call.ret = current_screen

C7_Witness ==
    /\ call.op = "next_screen"
    /\ call.n = 1
    /\ call.hooks = << <<"on_exit", screens[1]>>, <<"set_index", 0>>,
                       <<"on_enter", screens[1]>> >>

\* C8: initialize() with N >= 1 calls on_enter on the screen at index 0
\* once and nothing else, leaving the index unchanged; with N = 0 it calls
\* nothing.
C8_Initialize ==
    call.op = "initialize" =>
        /\ current_index = call.pre
        /\ call.hooks = IF call.n >= 1 THEN << <<"on_enter", screens[1]>> >>
                        ELSE <<>>

C8_Witness ==
    /\ call.op = "initialize"
    /\ call.n >= 2
    /\ call.pre > 0

(***************************************************************************)
(* Claims about the EventNotifier (checked under SpecNotifier)             *)
(***************************************************************************)
\* C9: after update_events(L) the working set is exactly the subsequence of
\* L whose is_all_day flag is false or absent, in the same order, and the
\* notified keys and the LED (flag and physical) are unchanged.
C9_UpdateEvents ==
    ncall.op = "update_events" =>
        /\ events = SelectSeq(ncall.arg,
                LAMBDA e : ~("is_all_day" \in DOMAIN e /\ e.is_all_day))
        /\ notified_keys = ncall.pre_keys
        /\ led_on = ncall.pre_led_on
        /\ led = ncall.pre_led

C9_Witness ==
    /\ ncall.op = "update_events"
    /\ ncall.arg = <<Holiday, Call>>
    /\ events = <<Call>>
    /\ notified_keys # {}
    /\ led_on

\* seconds from t to the start of e, for an event whose start parses
SecsUntil(e, t) ==
    LET st == ParseEventTime(e.start, t)
    IN  (st.day - t.day) * SecondsPerDay + (st.sec - t.sec)

InLead(e, t) ==
    /\ "start" \in DOMAIN e
    /\ e.start # None
    /\ ParseEventTime(e.start, t) # NoTime
    /\ 0 < SecsUntil(e, t)
    /\ SecsUntil(e, t) <= NOTIFICATION_MINUTES_BEFORE * 60

\* C10: with no notified key and the LED off, check_notifications returns
\* the first working-set event, in list order, whose time until start t has
\* 0 < t <= lead time, and None when there is no such event.
C10_CheckWindow ==
    (ncall.op = "check_notifications" /\ ncall.pre_keys = {} /\ ~ncall.pre_led_on) =>
        LET hits == {i \in 1..Len(events) : InLead(events[i], now)}
        IN  IF hits = {} THEN ncall.ret = <<>> /\ ncall.idx = 0
            ELSE /\ ncall.idx \in hits
                 /\ \A j \in hits : ncall.idx <= j
                 /\ ncall.ret = <<events[ncall.idx]>>

C10_Witness ==
    /\ ncall.op = "check_notifications"
    /\ ncall.pre_keys = {}
    /\ ~ncall.pre_led_on
    /\ events = <<Call, Meeting>>
    /\ now = [day |-> Today, sec |-> Hms(9, 55, 0)]
    /\ SecsUntil(Call, now) = NOTIFICATION_MINUTES_BEFORE * 60
    /\ ncall.ret = <<Call>>

(***************************************************************************)
(* Claims about the LED (checked under SpecLed and SpecWatchdog)           *)
(***************************************************************************)
\* C11: two _notify calls in succession with no clear between them send
\* exactly one 'on' command to the LED and invoke each registered callback
\* exactly once: a _notify call made while the LED flag is on sends no LED
\* command and calls no callback.
C11_NotifyOnce ==
    /\ (ncall.op = "_notify" /\ ncall.pre_led_on) => nlog = NoLog
    /\ (ncall.op = "_notify" /\ ~ncall.pre_led_on) =>
          /\ nlog.cmds = <<"on">>
          /\ nlog.cbs = callbacks
          /\ led /\ led_on
    /\ (ncall.op = "_notify" /\ nprev.op = "_notify") =>
          /\ ncall.pre_led_on
          /\ nlog = NoLog
          /\ ~nprev.pre_led_on =>
                /\ nprev.cmds \o nlog.cmds = <<"on">>
                /\ nprev.cbs \o nlog.cbs = callbacks
                /\ \A c \in 1..Len(callbacks) :
                      Cardinality({k \in 1..Len(nprev.cbs) :
                                      nprev.cbs[k] = callbacks[c]}) = 1

C11_Witness ==
    /\ ncall.op = "_notify"
    /\ nprev.op = "_notify"
    /\ ~nprev.pre_led_on
    /\ Len(callbacks) >= 2
    /\ nprev.cbs = callbacks
    /\ led

\* C12: when stop() called on a running watchdog returns, the LED is off
\* (flag and physical LED, so that the last LED command was 'off'), whatever
\* the monitor thread was doing, also when its join timed out.
C12_StopLeavesLedOff ==
    [][(cpc \in {"stop_clear", "stop_flag"} /\ cpc' = "idle")
          => (~led' /\ ~led_on')]_vars

\* C13: start() on a running watchdog changes nothing (no second monitor
\* thread, stop signal untouched); stop() on a watchdog that is not running
\* changes nothing and sends no LED command; is_running() is true exactly
\* between a start() and the next stop().
C13_StartStopIdempotent ==
    /\ (wop.op = "start" /\ wop.pre_running) =>
          /\ notifier_running
          /\ wd_stop = wop.pre_stop
          /\ wd_thread = wop.pre_thread
          /\ Born = wop.pre_born
    /\ (wop.op = "stop" /\ ~wop.pre_running) =>
          /\ ~notifier_running
          /\ cpc = "idle"
          /\ wd_stop = wop.pre_stop
          /\ wd_thread = wop.pre_thread
          /\ Born = wop.pre_born
          /\ wop.cmds = <<>>
    /\ notifier_running = wop.live
    /\ wop.op = "is_running" => wop.ret = wop.live

C13_Witness ==
    /\ wop.op = "start"
    /\ wop.pre_running
    /\ wop.pre_thread \in Live
    /\ Cardinality(Born) = 1

\* no working-set event has 0 < time until start <= lead time
NoneInWindow == \A i \in 1..Len(events) : ~InLead(events[i], now)

\* C14: a monitor scan during which no working-set event is within its
\* lead-time window clears the notification, whatever the notified keys are:
\* after it the LED is off, and if the LED flag was off already the scan
\* sends no 'off' command.
C14_ScanWithoutEventClears ==
    [][\A m \in MonitorIds :
          /\ (mpc[m] = "check" /\ mpc'[m] # "check" /\ NoneInWindow)
                => mpc'[m] = "clear"
          /\ (mpc[m] \in {"clear", "clear_flag"} /\ mpc'[m] = "loop") =>
                /\ ~led_on' /\ ~led'
                /\ scan'[m].cmds = IF scan'[m].pre_on THEN <<"off">> ELSE <<>>
      ]_vars

\* C15: in every reachable state the physical LED equals the watchdog's
\* _led_on flag.
C15_LedMirrorsFlag == led = led_on

(***************************************************************************)
(* Claims about startup and shutdown (checked under Spec)                  *)
(***************************************************************************)
IsPrefix(a, b) == Len(a) <= Len(b) /\ SubSeq(b, 1, Len(a)) = a

Range(q) == {q[i] : i \in 1..Len(q)}

PosIn(order, l) == CHOOSE i \in 1..Len(order) : order[i] = l

\* the elements of q are elements of order, each at most once and in the
\* order in which order lists them
InOrder(q, order) ==
    /\ Range(q) \subseteq Range(order)
    /\ \A i, j \in 1..Len(q) : i < j => PosIn(order, q[i]) < PosIn(order, q[j])

\* the startup steps, without the foreground loop that follows them
StartupSteps == SubSeq(StartupOrder, 1, Len(StartupOrder) - 1)

StartupTrace == SelectSeq(trace, LAMBDA l : l \in Range(StartupSteps))

ShutdownTrace == SelectSeq(trace, LAMBDA l : l \in Range(ShutdownOrder))

\* the foreground loop and the button handler it calls
InLoop ==
    \/ pc[Main] \in {"loop", "h_next", "h_enter", "h_sync"}
    \/ pc[Main] \in {"ud_acquire", "ud_check", "ud_skip", "ud_render",
                     "ud_no_image", "ud_writing"} /\ ud[Main].ret = "h_sync"

InShutdown == pc[Main] \in Range(ShutdownOrder)

\* C16: run() performs display init, rotator initialize, first full render,
\* watchdog sync, watchdog start and the start of the three workers strictly
\* in this order; no monitor thread and no worker runs before the first
\* render and the first sync have finished, and the foreground loop starts
\* only after all of them.
C16_StartupOrder ==
    /\ IsPrefix(StartupTrace, StartupSteps)
    /\ (Live # {} \/ \E t \in Workers : pc[t] # "idle") =>
          /\ IsPrefix(<<"init_display", "initialize", "first_update",
                        "first_sync">>, trace)
          /\ ud[Main].ret # "first_sync"
    /\ (\E t \in Workers : pc[t] # "idle") => "start_notifier" \in Range(trace)
    /\ InLoop =>
          /\ StartupTrace = StartupSteps
          /\ Live # {}
          /\ \A t \in Workers : pc[t] # "idle"

C16_Witness ==
    /\ pc[Main] = "loop"
    /\ trace = StartupSteps
    /\ Live # {}
    /\ \A t \in Workers : pc[t] \notin {"idle", "exited"}
    /\ panel.screen = EventsTodayScreen

\* startup was aborted at step f: run() is in shutdown() or over, and no
\* startup step after f was performed
Aborted(f) ==
    /\ InShutdown
    /\ \A l \in Range(StartupTrace) :
          PosIn(StartupOrder, l) <= PosIn(StartupOrder, f)
    /\ PosIn(StartupOrder, f) <= PosIn(StartupOrder, "start_notifier")
          => Live = {}
    /\ \A t \in Workers :
          PosIn(StartupOrder, f) <= PosIn(StartupOrder, StartLabel(t))
          => pc[t] = "idle"

\* C17 as stated: when any startup step fails (display init, initialize,
\* first render or panel write, watchdog sync, watchdog start), startup is
\* aborted and no later startup step is executed.
C17_AnyFailureAborts == \A f \in fault : Aborted(f)

\* C17, amended: a startup step that raises (display init, the start of the
\* watchdog thread or of a worker thread) aborts startup - no later startup
\* step is executed; a failed first render or panel write is caught inside
\* _update_display and startup goes on with the sync.
C17_RaisingStepAborts ==
    /\ \A f \in fault \ {"first_update"} : Aborted(f)
    /\ "first_update" \in fault => "first_sync" \in Range(trace)

C17_Witness ==
    /\ fault = {"first_update", "start_dht11"}
    /\ pc[Main] = "sd_flags"
    /\ "start_refresh" \in Range(trace)
    /\ pc["joke"] = "idle"

\* C18: a display-init failure makes run() raise after shutdown(), so that
\* the entry point exits with a non-zero code.
C18_InitFailureRaises ==
    ("init_display" \in fault /\ pc[Main] = "done") =>
        (run_result = "raised" /\ ExitCode(run_result) # 0)

C20_ShutdownReturns == run_result # "raised"

(***************************************************************************)
(* Claims about the loops and the shutdown signal                          *)
(***************************************************************************)
\* C21 (checked under SpecWatchdog, for the monitor loop): once stop(),
\* which shutdown() calls, has set the stop signal for a monitor loop, the
\* loop starts no new iteration: from its loop test it goes on to the final
\* cleanup and exits.  A loop has been signalled when the signal is set or
\* when it is no longer the thread that start() created last.
C21_NoIterationAfterSignal ==
    [][\A m \in MonitorIds :
          (mpc[m] = "loop" /\ mpc'[m] # "loop" /\ (wd_stop \/ wd_thread # m))
              => mpc'[m] = "final"]_vars

\* some event of the working set is inside its lead-time window and has
\* been notified
NotifiedInWindow ==
    \E i \in 1..Len(events) :
        InLead(events[i], now) /\ KeyOf(events[i]) \in notified_keys

\* C24 (checked under SpecWatchdog): while a notified event remains inside
\* its lead-time window and the LED is on, a monitor scan does not switch the
\* LED off: the scan does not end in _clear_notification.
C24_LedStaysOn ==
    [][\A m \in MonitorIds :
          (mpc[m] = "check" /\ mpc'[m] # "check" /\ led_on /\ led
             /\ NotifiedInWindow)
              => mpc'[m] # "clear"]_vars

\* C28 (checked under SpecWatchdog, for the monitor loop): across any
\* sequence of start() and stop() calls at most one monitor loop is
\* executing.
C28_OneMonitorLoop == Cardinality(Live) <= 1

(***************************************************************************)
(* Claims about the panel (checked under Spec)                             *)
(***************************************************************************)
\* C23: every panel write of a background update guarded with
\* expected_screen = X carries an image of screen X, and every write made
\* with partial refresh shows the sensor screen.
C23_GuardedWrite ==
    [][/\ \A t \in Workers :
             (pc[t] = "ud_writing" /\ pc'[t] # "ud_writing" /\ panel' # panel)
                 => panel'.screen = ud[t].expected
       /\ (panel' # panel /\ panel'.partial) => panel'.screen = DHT11Screen
      ]_vars

\* the foreground is between two button presses: handle_button_press has
\* written its image and is about to return, or has returned
Settled == pc[Main] \in {"h_sync", "loop"}

\* C26: the write that handle_button_press makes puts an image of the
\* rotator's current screen on the panel, and from then until the next
\* button press is handled no step - in particular no background update that
\* finishes later - leaves another screen's image on the panel.
C26_PanelShowsCurrent ==
    [][/\ (pc[Main] = "ud_writing" /\ ud[Main].ret = "h_sync"
             /\ panel' # panel)
              => panel'.screen = current_screen'
       /\ (Settled /\ Settled' /\ panel.screen = current_screen)
              => panel'.screen = current_screen'
      ]_vars

C26_Witness ==
    /\ pc[Main] = "loop"
    /\ ~pressed
    /\ current_screen = JokeScreen
    /\ panel.screen = JokeScreen
    /\ pc["dht11"] = "ud_skip"
    /\ pc["joke"] = "ud_acquire"

\* C27: the panel Clear() of shutdown() does not run while a worker is
\* inside a panel write, and no write changes the panel after the Clear().
C27_ClearAlone ==
    [][/\ (pc[Main] = "sd_clear" /\ pc'[Main] # "sd_clear" /\ epd # "none")
              => \A t \in Workers : pc[t] # "ud_writing"
       /\ "sd_clear" \in Range(trace) => panel' = panel
      ]_vars

\* the labels of _update_display
UdLabels == {"ud_acquire"} \cup CriticalLabels

\* C30: an update whose panel write fails returns to its caller like one that
\* wrote, skipped a stale screen or got no image: every way out of the with
\* block other than a KeyboardInterrupt leads to the caller's next statement
\* with the lock released, and the lock is never held by a thread outside
\* the with block, so that a later update can acquire it.
C30_WriteFailureReleases ==
    [][/\ \A t \in Threads :
             (pc[t] \in CriticalLabels /\ pc'[t] \notin UdLabels
                /\ pc'[t] # Raised("loop"))
                 => /\ pc'[t] = ud[t].ret
                    /\ display_lock = t
                    /\ display_lock' = "free"
       /\ \A t \in Threads :
             display_lock' = t => pc'[t] \in CriticalLabels
      ]_vars

C30_Witness ==
    /\ "first_update" \in fault
    /\ pc[Main] = "ud_writing"
    /\ ud[Main].ret = "h_sync"
    /\ display_lock = Main
    /\ pc["dht11"] = "ud_acquire"

\* C22: an exception raised inside one iteration of the data-refresh, sensor
\* or joke worker, or of the watchdog's monitor loop, is caught at the loop
\* boundary: from the except clause the loop goes to its timed wait, after the
\* wait with the signal unset it runs the following iteration, and a loop
\* ends only at its loop test with the shutdown signal set - never from
\* inside an iteration.
C22_FailureCaughtAtLoopBoundary ==
    [][/\ \A t \in Workers :
            /\ (pc[t] = "caught" /\ pc'[t] # "caught") => pc'[t] = "check_stop"
            /\ (pc[t] = "check_stop" /\ pc'[t] # "check_stop" /\ ~stop_event)
                   => pc'[t] \in IterationLabels(t)
            /\ (pc'[t] = "exited" /\ pc[t] # "exited")
                   => pc[t] = "check_stop" /\ stop_event
       /\ \A m \in MonitorIds :
            /\ (mpc[m] = "caught" /\ mpc'[m] # "caught") => mpc'[m] = "loop"
            /\ (mpc[m] = "loop" /\ mpc'[m] # "loop" /\ ~wd_stop)
                   => mpc'[m] = "check"
            /\ (mpc'[m] = "final" /\ mpc[m] # "final")
                   => mpc[m] = "loop" /\ wd_stop ]_vars

\* every loop is in its except clause at once, with both signals unset
C22_Witness ==
    /\ \A t \in Workers : pc[t] = "caught"
    /\ \E m \in MonitorIds : mpc[m] = "caught"
    /\ ~stop_event
    /\ ~wd_stop
    /\ pc[Main] = "loop"

\* C25: whenever neither the data-refresh worker nor the foreground is inside
\* a fetch-and-sync (the foreground idles in its loop, the worker waits or
\* has ended), the watchdog's working set is the timed events of the events
\* screen's most recently fetched list.
C25_WorkingSetIsLatest ==
    (pc[Main] = "loop" /\ pc["refresh"] \in {"check_stop", "exited"})
        => events = FilterTimed(today_events)

\* C29: a shutdown() call made from another thread after run() has begun is
\* not lost: once it has returned, the foreground never sits in its loop
\* with the running flag set or the stop signal cleared, and the watchdog is
\* not running.
C29_ShutdownNotLost ==
    (ext = "returned" /\ pc[Main] = "loop")
        => (~running /\ stop_event /\ ~notifier_running)

\* the notification key of event e: title | raw start string
EventKey(e) == Get(e, "title", <<>>) \o <<"|">> \o Get(e, "start", None)

\* e is in its lead-time window at t and is not suppressed by keys / ledOn
Candidate(e, keys, ledOn, t) ==
    InLead(e, t) /\ ~(EventKey(e) \in keys /\ ledOn)

\* C33: check_notifications puts the key (title | raw start string) of the
\* in-window event it returns into the notified-keys set; an in-window event
\* whose key is in the set while the LED is on is not returned again: the
\* call returns the first working-set event that is in window and not
\* suppressed in this way, or nothing when there is none.
C33_NotifiedKeySuppresses ==
    ncall.op = "check_notifications" =>
        LET cand == {i \in 1..Len(events) :
                        Candidate(events[i], ncall.pre_keys, ncall.pre_led_on, now)}
        IN  IF cand = {} THEN ncall.ret = <<>> /\ ncall.idx = 0
            ELSE /\ ncall.idx \in cand
                 /\ \A j \in cand : ncall.idx <= j
                 /\ ncall.ret = <<events[ncall.idx]>>
                 /\ EventKey(events[ncall.idx]) \in notified_keys

C33_Witness ==
    /\ ncall.op = "check_notifications"
    /\ events = <<Meeting, Call>>
    /\ ncall.pre_led_on
    /\ EventKey(Meeting) \in ncall.pre_keys
    /\ EventKey(Call) \notin ncall.pre_keys
    /\ ncall.ret = <<Call>>
    /\ EventKey(Call) \in notified_keys

\* the start of e has been reached at t
Elapsed(e, t) ==
    /\ ~Falsy(Get(e, "start", None))
    /\ ParseEventTime(e.start, t) # NoTime
    /\ SecsUntil(e, t) <= 0

\* C34: a check_notifications call made once the time until start of a
\* working-set event is <= 0 leaves the notified-keys set without that
\* event's key.
C34_ElapsedKeyRemoved ==
    ncall.op = "check_notifications" =>
        \A i \in 1..Len(events) :
            Elapsed(events[i], now) => EventKey(events[i]) \notin notified_keys

\* the start of e is missing, empty or unparseable
Unusable(e, t) ==
    \/ Falsy(Get(e, "start", None))
    \/ ParseEventTime(e.start, t) = NoTime

\* C36: a working-set event whose start is missing, empty or unparseable is
\* never returned by check_notifications and its key never enters the
\* notified-keys set; the call returns normally and the events after it are
\* still examined: the call returns the first later candidate, if any, and
\* removes the key of every elapsed event it passes.
C36_UnusableStartSkipped ==
    /\ \A i \in 1..Len(events) :
          Unusable(events[i], now) => EventKey(events[i]) \notin notified_keys
    /\ ncall.op = "check_notifications" =>
          /\ ncall.ret # <<>> => ~Unusable(ncall.ret[1], now)
          /\ \A i \in 1..Len(events) : \A j \in (i + 1)..Len(events) :
                (/\ Unusable(events[i], now)
                 /\ \A k \in 1..(j - 1) :
                       ~Candidate(events[k], ncall.pre_keys, ncall.pre_led_on, now))
                => /\ Candidate(events[j], ncall.pre_keys, ncall.pre_led_on, now)
                      => ncall.ret = <<events[j]>> /\ ncall.idx = j
                   /\ Elapsed(events[j], now)
                      => EventKey(events[j]) \notin notified_keys

C36_Witness ==
    /\ ncall.op = "check_notifications"
    /\ Len(events) = 2
    /\ events[1] \in {Unscheduled, Unset, Broken}
    /\ events[2] = Meeting
    /\ ncall.ret = <<Meeting>>
    /\ ncall.idx = 2

\* the working-set positions of the events that are within their lead-time
\* window with their key already notified, before the recorded call
Rearmed ==
    {i \in 1..Len(events) :
        InLead(events[i], now) /\ EventKey(events[i]) \in ncall.pre_keys}

\* C35 as stated: when an event is within its lead-time window, its key is
\* already in the notified-keys set and the LED is off, the scan of a
\* monitor iteration returns that event and leaves the notified-keys set
\* unchanged, and the iteration switches the LED on.
C35_RearmReturnsEvent ==
    (ncall.op = "_monitor_loop" /\ ~ncall.pre_led_on) =>
        \A i \in Rearmed :
            /\ ncall.ret = <<events[i]>>
            /\ notified_keys = ncall.pre_keys
            /\ led_on /\ led

\* C35, amended: in that situation the scan returns the first working-set
\* event that is within its window - that event unless another in-window
\* event precedes it -, the event's key stays in the notified-keys set (keys
\* of elapsed events the scan passes are removed, the key of the returned
\* event is added), and the iteration sends one "on" command: the LED is on.
C35_RearmSwitchesLedOn ==
    (ncall.op = "_monitor_loop" /\ ~ncall.pre_led_on) =>
        \A i \in Rearmed :
            /\ ncall.ret # <<>>
            /\ ncall.idx <= i
            /\ ncall.ret = <<events[ncall.idx]>>
            /\ InLead(events[ncall.idx], now)
            /\ \A j \in 1..(ncall.idx - 1) : ~InLead(events[j], now)
            /\ EventKey(events[i]) \in notified_keys
            /\ notified_keys \subseteq
                  ncall.pre_keys \cup {EventKey(events[ncall.idx])}
            /\ \A k \in ncall.pre_keys \ notified_keys :
                  \E j \in 1..(ncall.idx - 1) :
                      Elapsed(events[j], now) /\ EventKey(events[j]) = k
            /\ nlog.cmds = <<"on">>
            /\ led_on /\ led

C35_Witness ==
    /\ ncall.op = "_monitor_loop"
    /\ ~ncall.pre_led_on
    /\ events = <<Meeting, Call>>
    /\ Rearmed = {1, 2}
    /\ ncall.ret = <<Meeting>>
    /\ led

ActsOnlyOn(t, own, partial) ==
    /\ (pc[t] = "check_screen" /\ pc'[t] # "check_screen")
          => /\ ud'[t] = NoUpdate
             /\ pc'[t] = IF current_screen = own THEN "get_data"
                         ELSE "check_stop"
    /\ (pc[t] # "get_data" /\ pc'[t] = "get_data")
          => pc[t] = "check_screen" /\ current_screen = own
    /\ (pc[t] # "ud_acquire" /\ pc'[t] = "ud_acquire") => pc[t] = "get_data"
    /\ (pc[t] = "get_data" /\ pc'[t] # "get_data")
          => /\ pc'[t] = "ud_acquire"
             /\ ud'[t].partial = partial
             /\ ud'[t].expected = own
             /\ ud'[t].ret = "check_stop"

\* C32: the sensor worker acts only in an iteration whose check finds the
\* sensor screen current, and then requests a partial update guarded by the
\* sensor screen; the joke worker likewise with the joke screen and a full
\* update.
C32_WorkersActOnOwnScreen ==
    [][/\ ActsOnlyOn("dht11", DHT11Screen, TRUE)
       /\ ActsOnlyOn("joke", JokeScreen, FALSE)]_vars

\* both workers have requested their update (the sensor worker's request is
\* still waiting for the lock after the user has moved on to the joke screen)
C32_Witness ==
    /\ pc["dht11"] = "ud_acquire"
    /\ ud["dht11"].partial
    /\ ud["dht11"].expected = DHT11Screen
    /\ pc["joke"] = "ud_acquire"
    /\ ~ud["joke"].partial
    /\ ud["joke"].expected = JokeScreen


\* DHT11Screen.get_data() statement by statement.  self._reading is
\* shared by the main thread (on_enter) and the sensor worker, and no lock
\* guards it.
SensorThreads == {Main, "dht11"}

\* the labels of get_data(): the assignment in the try block, then the two
\* conditional expressions of the return statement, each a truth test of
\* self._reading followed by an attribute read
GdFollows(l) ==
    IF l = "gd_fetch" THEN "gd_test_t"
    ELSE IF l = "gd_test_t" THEN "gd_attr_t"
    ELSE IF l = "gd_attr_t" THEN "gd_test_h"
    ELSE IF l = "gd_test_h" THEN "gd_attr_h"
    ELSE "gd_done"

\* handle_button_press(): next_screen() reaches on_enter of the sensor
\* screen, which calls get_data()
EnterSensor ==
    /\ pc[Main] = "h_enter"
    /\ current_screen = DHT11Screen
    /\ pc' = [pc EXCEPT ![Main] = "gd_fetch"]
    /\ UNCHANGED <<ud, display_lock, panel, epd, driver, stop_event, running,
                   pressed, today_events, notifier_running>>
    /\ UNCHANGED <<rotVars, notVars, logVars, monVars, runVars>>

\* _dht11_refresh_loop: self._dht11_screen.get_data()
WorkerGetData ==
    /\ pc["dht11"] = "get_data"
    /\ pc' = [pc EXCEPT !["dht11"] = "gd_fetch"]
    /\ UNCHANGED <<ud, display_lock, panel, epd, driver, stop_event, running,
                   pressed, today_events, notifier_running>>
    /\ UNCHANGED <<rotVars, notVars, logVars, monVars, runVars>>

\* the outcomes of the try block: a reading, or None (get_dht11_reading()
\* returned None, or raised and the except clause assigned None)
ReadingsAlwaysValue == {"value"}

Readings == {"none", "value"}

\* try: self._reading = get_dht11_reading() / except: self._reading = None
GdFetch(t) ==
    /\ pc[t] = "gd_fetch"
    /\ reading' \in Readings
    /\ pc' = [pc EXCEPT ![t] = GdFollows("gd_fetch")]
    /\ UNCHANGED <<ud, display_lock, panel, epd, driver, stop_event, running,
                   pressed, today_events, notifier_running>>
    /\ UNCHANGED <<rotVars, notVars, logVars, monVars, trace, fault, wthread,
                   run_result, snap, ext, recorded>>

\* `... if self._reading else None`: the truth test
GdTest(t) ==
    /\ pc[t] \in {"gd_test_t", "gd_test_h"}
    /\ pc' = [pc EXCEPT ![t] = IF reading # "none" THEN GdFollows(pc[t])
                               ELSE GdFollows(GdFollows(pc[t]))]
    /\ UNCHANGED <<ud, display_lock, panel, epd, driver, stop_event, running,
                   pressed, today_events, notifier_running>>
    /\ UNCHANGED <<rotVars, notVars, logVars, monVars, runVars>>

\* self._reading.temperature / self._reading.humidity: AttributeError when
\* self._reading is None by now
GdAttr(t) ==
    /\ pc[t] \in {"gd_attr_t", "gd_attr_h"}
    /\ pc' = [pc EXCEPT ![t] = IF reading = "none" THEN "gd_raised"
                               ELSE GdFollows(pc[t])]
    /\ UNCHANGED <<ud, display_lock, panel, epd, driver, stop_event, running,
                   pressed, today_events, notifier_running>>
    /\ UNCHANGED <<rotVars, notVars, logVars, monVars, runVars>>

\* the exception leaves get_data(): in the main thread it passes through
\* on_enter, next_screen and handle_button_press to run()'s except clause
\* and shutdown(); in the worker the loop's except clause logs it
GdRaised(t) ==
    /\ pc[t] = "gd_raised"
    /\ pc' = [pc EXCEPT ![t] = IF t = Main THEN Raised("h_enter") ELSE "caught"]
    /\ UNCHANGED <<ud, display_lock, panel, epd, driver, stop_event, running,
                   pressed, today_events, notifier_running>>
    /\ UNCHANGED <<rotVars, notVars, logVars, monVars, runVars>>

\* get_data() returns; the caller goes on to its _update_display call
GdDone(t) ==
    /\ pc[t] = "gd_done"
    /\ IF t = Main THEN CallUpdate(Main, FALSE, NoScreen, "h_sync")
       ELSE CallUpdate(t, TRUE, WorkerScreen(t), "check_stop")
    /\ UNCHANGED <<display_lock, panel, epd, driver, stop_event, running,
                   pressed, today_events, notifier_running>>
    /\ UNCHANGED <<rotVars, notVars, logVars, monVars, runVars>>

\* The foreground and the sensor worker with get_data() of the sensor
\* screen taken statement by statement; the user presses the button.  The
\* other workers are started and then wait.
NextSensor ==
    \/ RunInitDisplay
    \/ RunInitialize
    \/ RunFirstUpdate
    \/ RunFirstSync
    \/ RunStartNotifier
    \/ RunStartFlags
    \/ \E t \in Workers : RunStartWorker(t)
    \/ ButtonPress
    \/ MainLoop
    \/ HandleNext
    \/ (current_screen # DHT11Screen /\ HandleEnter)
    \/ EnterSensor
    \/ HandleSync
    \/ WorkerCheckStop("dht11")
    \/ WorkerCheckScreen("dht11")
    \/ WorkerGetData
    \/ WorkerCaught("dht11")
    \/ \E t \in SensorThreads : GdFetch(t)
    \/ \E t \in SensorThreads : GdTest(t)
    \/ \E t \in SensorThreads : GdAttr(t)
    \/ \E t \in SensorThreads : GdRaised(t)
    \/ \E t \in SensorThreads : GdDone(t)
    \/ \E t \in SensorThreads : UdAcquire(t)
    \/ \E t \in SensorThreads : UdCheck(t)
    \/ UdSkip("dht11")
    \/ \E t \in SensorThreads : UdRender(t)
    \/ \E t \in SensorThreads : UdWriteEnd(t)

SpecSensor == Init /\ [][NextSensor]_vars

\* C37: get_data() of a content screen never raises, in any thread, so a
\* rotator transition whose on_enter fetches always completes and the
\* foreground loop keeps running.
C37_GetDataNeverRaises == \A t \in SensorThreads : pc[t] # "gd_raised"

\* C38: the pressed flag is set exactly when at least one press was recorded
\* since the previous call of button_was_pressed(); a poll of the foreground
\* loop that finds the flag clears the whole record in the same step and
\* starts one handle_button_press, however many presses were recorded; the
\* handler is started by nothing else, and the rotator's index changes only
\* in the next_screen() call of a started handler.
C38_PressesCauseOneTransition ==
    /\ [](pressed <=> recorded > 0)
    /\ [][/\ ((pc[Main] = "loop" /\ pc'[Main] = "h_next")
               => (pressed /\ recorded >= 1 /\ ~pressed' /\ recorded' = 0))
           /\ ((pc[Main] # "h_next" /\ pc'[Main] = "h_next")
               => pc[Main] = "loop")
           /\ ((current_index' # current_index)
               => (pc[Main] = "h_next" /\ pc'[Main] = "h_enter"))]_vars

\* Several presses are recorded while handle_button_press is still running
\* after its rotator transition.
C38_Witness ==
    /\ pc[Main] = "h_enter"
    /\ recorded >= 2
    /\ current_index # 0

\* C39: after initialize() on a manager that has only registered screens,
\* followed by any sequence of next_screen, previous_screen and go_to_screen
\* calls, the current screen is the screen whose on_enter was called most
\* recently, it has received exactly one more on_enter than on_exit, and
\* every other screen has received as many on_exit as on_enter calls.
C39_HooksBalanced ==
    (phase = "navigating" /\ Len(screens) > 0) =>
        /\ current_screen = last_entered
        /\ balance[current_screen] = 1
        /\ \A s \in ScreenPool \ {current_screen} : balance[s] = 0

\* All three navigation calls have been made after initialize(), the last
\* two being a previous_screen and a go_to_screen that changed the screen.
C39_Witness ==
    /\ phase = "navigating"
    /\ Len(screens) = MaxScreens
    /\ prev.op = "previous_screen"
    /\ call.op = "go_to_screen"
    /\ call.hooks # <<>>
    /\ call.pre # current_index
    /\ balance[current_screen] = 1

====
